---- MODULE Spec2Model ----
(***************************************************************************)
(* Model of the resumable getaddrinfo state machine of                     *)
(* contrib/lib/libc/asr/getaddrinfo_async.c.                               *)
(*                                                                         *)
(* The request (struct async), the caller's result (struct async_res) and  *)
(* the resolver context (struct asr_ctx) are records.  One action models   *)
(* one case of the switch in getaddrinfo_async_run(); the "goto next" loop *)
(* is the repetition of these actions while a call is active.              *)
(*                                                                         *)
(* Text is modelled by TLA+ strings, DNS names in wire form by tuples of   *)
(* labels, a port stored in a sockaddr by its two bytes in network order.  *)
(* The build (variable build) defines EAI_BADHINTS or not and              *)
(* HAVE_GETSERVBYNAME_R_4_ARGS or not; it has no YP.                       *)
(***************************************************************************)
EXTENDS Integers, Sequences, FiniteSets, TLC

VARIABLES
    as,      \* struct async: the request and its cursors
    ar,      \* struct async_res: the caller's result structure
    ctx,     \* struct asr_ctx: backend order and family order
    run,     \* the caller's side: is a call active, what did the last one return
    f,       \* what the last fopen() of the hosts file returned
    hosts,   \* the lines of the hosts file, split into tokens
    build,   \* compile-time options of the build
    rel,     \* asr_freeaddrinfo() at work on a result: its pointer, the frees done
    fetched  \* the attempts made so far: backend index, backend and family of each

vars == <<as, ar, ctx, run, f, hosts, build, rel, fetched>>

\* ------------------------------------------------------------------ bounds

\* How many times one run may see its sub-query report "pending".
MaxPending == 1
\* Allocation failures are explored at the 1st .. MaxAlloc-th allocation of a step.
MaxAlloc == 2

\* --------------------------------------------------------------- vocabulary

NULL == "NULL"
NoError == "0"

PF_UNSPEC == "PF_UNSPEC"
PF_INET == "PF_INET"
PF_INET6 == "PF_INET6"
PF_LOCAL == "PF_LOCAL"
NoFamily == "-1"

SOCK_ANY == "0"
SOCK_STREAM == "SOCK_STREAM"
SOCK_DGRAM == "SOCK_DGRAM"
SOCK_RAW == "SOCK_RAW"
SOCK_SEQPACKET == "SOCK_SEQPACKET"

IPPROTO_ANY == "0"
IPPROTO_TCP == "IPPROTO_TCP"
IPPROTO_UDP == "IPPROTO_UDP"
IPPROTO_ICMP == "IPPROTO_ICMP"

AI_PASSIVE == "AI_PASSIVE"
AI_CANONNAME == "AI_CANONNAME"
AI_NUMERICHOST == "AI_NUMERICHOST"
AI_NUMERICSERV == "AI_NUMERICSERV"
AI_FQDN == "AI_FQDN"
AI_V4MAPPED == "AI_V4MAPPED"
AI_MASK == {AI_PASSIVE, AI_CANONNAME, AI_NUMERICHOST, AI_NUMERICSERV, AI_FQDN}

ASYNC_AGAIN == "ASYNC_AGAIN"
ASYNC_COND == "ASYNC_COND"
ASYNC_DONE == "ASYNC_DONE"

ASR_DB_FILE == "ASR_DB_FILE"
ASR_DB_DNS == "ASR_DB_DNS"
ASR_DB_YP == "ASR_DB_YP"

T_A == "T_A"
T_AAAA == "T_AAAA"
T_CNAME == "T_CNAME"
C_IN == "C_IN"

ENOMEM == "ENOMEM"
EINVAL == "EINVAL"

ASR_STATE_INIT == "ASR_STATE_INIT"
ASR_STATE_NEXT_DB == "ASR_STATE_NEXT_DB"
ASR_STATE_SAME_DB == "ASR_STATE_SAME_DB"
ASR_STATE_NEXT_FAMILY == "ASR_STATE_NEXT_FAMILY"
ASR_STATE_SUBQUERY == "ASR_STATE_SUBQUERY"
ASR_STATE_NOT_FOUND == "ASR_STATE_NOT_FOUND"
ASR_STATE_HALT == "ASR_STATE_HALT"

EAI_NONAME == "EAI_NONAME"
EAI_BADHINTS == "EAI_BADHINTS"
EAI_BADFLAGS == "EAI_BADFLAGS"
EAI_FAMILY == "EAI_FAMILY"
EAI_SOCKTYPE == "EAI_SOCKTYPE"
EAI_SERVICE == "EAI_SERVICE"
EAI_FAIL == "EAI_FAIL"
EAI_NODATA == "EAI_NODATA"
EAI_AGAIN == "EAI_AGAIN"
EAI_MEMORY == "EAI_MEMORY"

\* ------------------------------------------------------ compatibility table

\* matches[]: the six triples before the { -1, 0, 0 } terminator.
matches == <<
    [family |-> PF_INET,  socktype |-> SOCK_DGRAM,  protocol |-> IPPROTO_UDP],
    [family |-> PF_INET,  socktype |-> SOCK_STREAM, protocol |-> IPPROTO_TCP],
    [family |-> PF_INET,  socktype |-> SOCK_RAW,    protocol |-> IPPROTO_ANY],
    [family |-> PF_INET6, socktype |-> SOCK_DGRAM,  protocol |-> IPPROTO_UDP],
    [family |-> PF_INET6, socktype |-> SOCK_STREAM, protocol |-> IPPROTO_TCP],
    [family |-> PF_INET6, socktype |-> SOCK_RAW,    protocol |-> IPPROTO_ANY] >>

MATCH_FAMILY(a, b) == a = matches[b].family \/ a = PF_UNSPEC

MATCH_PROTO(a, b) ==
    a = matches[b].protocol \/ a = IPPROTO_ANY \/ matches[b].protocol = IPPROTO_ANY

\* Do not match SOCK_RAW unless explicitly specified.
\* MATCH_SOCKTYPE without the exclusion of SOCK_RAW for an unset socket type.
MATCH_SOCKTYPE_any_raw(a, b) == a = matches[b].socktype \/ a = SOCK_ANY

MATCH_SOCKTYPE(a, b) ==
    a = matches[b].socktype \/ (a = SOCK_ANY /\ matches[b].socktype # SOCK_RAW)

\* The loop "for (i = 0; matches[i].family != -1; i++) if (...) break": the index it
\* stops at, Len(matches) + 1 standing for the terminator.
RECURSIVE first_match(_, _)
first_match(ai, i) ==
    IF i > Len(matches) THEN i
    ELSE IF /\ MATCH_FAMILY(ai.ai_family, i)
            /\ MATCH_SOCKTYPE(ai.ai_socktype, i)
            /\ MATCH_PROTO(ai.ai_protocol, i)
         THEN i
         ELSE first_match(ai, i + 1)

\* ------------------------------------------------------------- text helpers

Char(s, i) == SubSeq(s, i, i)

Digits == "0123456789"
Uppers == "ABCDEFGHIJKLMNOPQRSTUVWXYZ"
Lowers == "abcdefghijklmnopqrstuvwxyz"

DigitSet == { Char(Digits, k) : k \in 1..Len(Digits) }
UpperSet == { Char(Uppers, k) : k \in 1..Len(Uppers) }

\* The value of a digit, the lower-case letter of an upper-case letter.
DigitMap == [c \in DigitSet |-> (CHOOSE k \in 1..Len(Digits) : Char(Digits, k) = c) - 1]
LowerMap ==
    [c \in UpperSet |-> Char(Lowers, CHOOSE k \in 1..Len(Uppers) : Char(Uppers, k) = c)]

IsDigit(c) == c \in DigitSet
DigitVal(c) == DigitMap[c]

tolower(c) == IF c \in UpperSet THEN LowerMap[c] ELSE c

\* strcasecmp(a, b) == 0, comparing from character i on as the loop of strcasecmp()
\* does: the first difference, or the end of one string only, ends it.
RECURSIVE strcasecmp_at(_, _, _)
strcasecmp_at(a, b, i) ==
    IF i > Len(a) \/ i > Len(b) THEN Len(a) = Len(b)
    ELSE IF tolower(Char(a, i)) # tolower(Char(b, i)) THEN FALSE
    ELSE strcasecmp_at(a, b, i + 1)

strcasecmp_eq(a, b) == strcasecmp_at(a, b, 1)

\* The decimal value of s[i..j], all of whose characters are digits.
RECURSIVE DecVal(_, _, _)
DecVal(s, i, j) ==
    IF j < i THEN 0 ELSE DecVal(s, i, j - 1) * 10 + DigitVal(Char(s, j))

AllDigits(s, i, j) == \A k \in i..j : IsDigit(Char(s, k))

\* strtonum(s, minval, maxval, &e): e is NULL on success, else "invalid" (EINVAL)
\* or "too large" / "too small" (ERANGE).  Values far beyond the range are clamped
\* the way strtoll() saturates, so the result only depends on the comparison.
strtonum(s, minval, maxval) ==
    LET neg == Len(s) >= 1 /\ Char(s, 1) = "-"
        first == IF neg \/ (Len(s) >= 1 /\ Char(s, 1) = "+") THEN 2 ELSE 1
    IN  IF Len(s) < first \/ ~AllDigits(s, first, Len(s))
        THEN [val |-> 0, e |-> "invalid"]
        ELSE LET mag == DecVal(s, first, Len(s))
                 v == IF neg THEN 0 - mag ELSE mag
             IN  IF v < minval THEN [val |-> 0, e |-> "too small"]
                 ELSE IF v > maxval THEN [val |-> 0, e |-> "too large"]
                 ELSE [val |-> v, e |-> NULL]

\* --------------------------------------------------- service name to port

USHRT_MAX == 65535

\* The services database read by getservbyname_r(): name, protocol, port.
Services == { <<"domain", "tcp", 53>>, <<"domain", "udp", 53>>,
              <<"smtp", "tcp", 25>>, <<"tftp", "udp", 69>> }

\* getservbyname_r(servname, proto, &se, &sed): -1 when there is no such entry.
getservbyname_r(servname, proto) ==
    IF \E e \in Services : e[1] = servname /\ e[2] = proto
    THEN [r |-> 0, s_port |-> (CHOOSE e \in Services : e[1] = servname /\ e[2] = proto)[3]]
    ELSE [r |-> 0 - 1, s_port |-> 0]

\* get_port() in build b: the port, 0 without a service name, -2 when invalid, -1
\* when the name is not defined for the protocol ("r = -1" stands for the lookup
\* in a build without HAVE_GETSERVBYNAME_R_4_ARGS).
get_port(servname, proto, numonly, b) ==
    IF servname = NULL THEN 0
    ELSE LET n == strtonum(servname, 0, USHRT_MAX)
         IN  IF n.e = NULL THEN n.val
             ELSE IF n.e # "invalid" THEN 0 - 2
             ELSE IF numonly THEN 0 - 2
             ELSE LET se == IF b.HAVE_GETSERVBYNAME_R_4_ARGS
                            THEN getservbyname_r(servname, proto)
                            ELSE [r |-> 0 - 1, s_port |-> 0]
                  IN  IF se.r = 0 - 1 THEN 0 - 1 ELSE se.s_port

\* htons(port): the two bytes of the port as stored in sin_port / sin6_port.
\* The port left in host byte order on a little-endian machine.
htons_host_order(port) == << port % 256, (port \div 256) % 256 >>

htons(port) == << (port \div 256) % 256, port % 256 >>

\* ------------------------------------------------------- address parsing

\* Positions of the dots of s.
DotsOf(s) == { k \in 1..Len(s) : Char(s, k) = "." }

\* inet_pton(AF_INET, s) from character i on: the octets read so far, the value
\* cur and the number nd of digits of the octet being read.  <<>> when s is not
\* four decimal octets separated by dots.
RECURSIVE inet_pton4_at(_, _, _, _, _)
inet_pton4_at(s, i, octets, cur, nd) ==
    IF i > Len(s)
    THEN (IF nd > 0 /\ Len(octets) = 3 THEN Append(octets, cur) ELSE <<>>)
    ELSE IF Char(s, i) = "."
    THEN (IF nd = 0 \/ Len(octets) >= 3 THEN <<>>
          ELSE inet_pton4_at(s, i + 1, Append(octets, cur), 0, 0))
    ELSE IF IsDigit(Char(s, i)) /\ nd < 3 /\ cur * 10 + DigitVal(Char(s, i)) <= 255
    THEN inet_pton4_at(s, i + 1, octets, cur * 10 + DigitVal(Char(s, i)), nd + 1)
    ELSE <<>>

inet_pton4(s) ==
    [ok |-> inet_pton4_at(s, 1, <<>>, 0, 0) # <<>>, addr |-> inet_pton4_at(s, 1, <<>>, 0, 0)]

\* inet_pton(AF_INET6, s) on the IPv6 texts the model uses: the eight groups.
inet_pton6(s) ==
    CASE s = "::"          -> [ok |-> TRUE, addr |-> <<0, 0, 0, 0, 0, 0, 0, 0>>]
      [] s = "::1"         -> [ok |-> TRUE, addr |-> <<0, 0, 0, 0, 0, 0, 0, 1>>]
      [] s = "2001:db8::7" -> [ok |-> TRUE, addr |-> <<8193, 3512, 0, 0, 0, 0, 0, 7>>]
      [] OTHER             -> [ok |-> FALSE, addr |-> <<>>]

\* sockaddr_from_str(&sa, family, str): r = -1 when str is no address of family;
\* the port of the sockaddr it fills is zero.
sockaddr_from_str(family, str) ==
    LET p == IF family = PF_INET THEN inet_pton4(str)
             ELSE IF family = PF_INET6 THEN inet_pton6(str)
             ELSE [ok |-> FALSE, addr |-> <<>>]
    IN  IF p.ok
        THEN [r |-> 0, sa |-> [sa_family |-> family, addr |-> p.addr, port |-> htons(0)]]
        ELSE [r |-> 0 - 1, sa |-> [sa_family |-> NoFamily, addr |-> <<>>, port |-> htons(0)]]

\* -------------------------------------------------------------- iterators

\* AS_FAMILY(as): ac_family[] ends with -1.
AS_FAMILY(a, c) == c.ac_family[a.as_family_idx + 1]

\* AS_DB(as)
AS_DB(a, c) == c.ac_db[a.as_db_idx]

\* asr_iter_db(as): -1 when the backends are exhausted, else the cursor moves on.
asr_iter_db(a, c) ==
    IF a.as_db_idx >= Len(c.ac_db)
    THEN [r |-> 0 - 1, as |-> a]
    ELSE [r |-> 0, as |-> [a EXCEPT !.as_db_idx = @ + 1]]

\* iter_family(as, first): the family to try and the request with its cursor moved.
iter_family(a, c, first) ==
    IF first
    THEN LET a0 == [a EXCEPT !.as_family_idx = 0]
         IN  IF a.hints.ai_family # PF_UNSPEC
             THEN [family |-> a.hints.ai_family, as |-> a0]
             ELSE [family |-> AS_FAMILY(a0, c), as |-> a0]
    ELSE IF a.hints.ai_family # PF_UNSPEC
         THEN [family |-> NoFamily, as |-> a]
         ELSE LET a1 == [a EXCEPT !.as_family_idx = @ + 1]
              IN  [family |-> AS_FAMILY(a1, c), as |-> a1]

\* ------------------------------------------------------------------- heap

\* calloc()/strdup() within one step: the failAt-th allocation of the step fails
\* (failAt = 0: none does); n counts the allocations made so far.
alloc_fails(heap) == heap.n + 1 = heap.failAt
alloc_done(heap) == [heap EXCEPT !.n = @ + 1]

\* --------------------------------------------------- address list builder

new_addrinfo(sa, socktype, proto, port, canonname) ==
    [ai_family |-> sa.sa_family,
     ai_socktype |-> socktype,
     ai_protocol |-> proto,
     ai_addr |-> [sa EXCEPT !.port = htons(port)],
     ai_canonname |-> canonname]

\* The protocol of the entry taken from the table alone.
proto_of_match(a, i) == matches[i].protocol

\* "proto = as->as.ai.hints.ai_protocol; if (!proto) proto = matches[i].protocol;"
proto_of(a, i) ==
    IF a.hints.ai_protocol = IPPROTO_ANY THEN matches[i].protocol ELSE a.hints.ai_protocol

\* The body of the loop of addrinfo_add() from index i on.
RECURSIVE addrinfo_add_from(_, _, _, _, _)
addrinfo_add_from(i, a, sa, cname, heap) ==
    IF i > Len(matches) THEN [r |-> NoError, as |-> a, heap |-> heap]
    ELSE IF \/ matches[i].family # sa.sa_family
            \/ ~MATCH_SOCKTYPE(a.hints.ai_socktype, i)
            \/ ~MATCH_PROTO(a.hints.ai_protocol, i)
    THEN addrinfo_add_from(i + 1, a, sa, cname, heap)
    ELSE LET proto == proto_of(a, i)
             port == IF proto = IPPROTO_TCP THEN a.port_tcp
                     ELSE IF proto = IPPROTO_UDP THEN a.port_udp
                     ELSE 0
             named == cname # NULL /\ a.hints.ai_flags \cap {AI_CANONNAME, AI_FQDN} # {}
             h1 == alloc_done(heap)
             h2 == IF named THEN alloc_done(h1) ELSE h1
             ai == new_addrinfo(sa, matches[i].socktype, proto, port,
                                IF named THEN cname ELSE NULL)
         IN  IF port = 0 - 1
             THEN addrinfo_add_from(i + 1, a, sa, cname, heap)
             ELSE IF alloc_fails(heap)
             THEN [r |-> EAI_MEMORY, as |-> a, heap |-> h1]
             ELSE IF named /\ alloc_fails(h1)
             THEN [r |-> EAI_MEMORY, as |-> a, heap |-> h2]
             ELSE addrinfo_add_from(i + 1,
                      [a EXCEPT !.aifirst = Append(@, ai), !.as_count = @ + 1],
                      sa, cname, h2)

\* addrinfo_add(as, sa, cname): one entry per protocol/socktype match.
addrinfo_add(a, sa, cname, heap) == addrinfo_add_from(1, a, sa, cname, heap)

\* ------------------------------------------------- hosts file line matcher

\* The scan "for (i = 1; i < n; i++)" of one line: the index it stops at, n when
\* no name of the line matches (tokens[0] is tokens[1] here, n is Len(tokens)).
RECURSIVE match_token(_, _, _, _)
match_token(a, family, tokens, i) ==
    IF i > Len(tokens) THEN i
    ELSE IF ~strcasecmp_eq(a.hostname, tokens[i]) THEN match_token(a, family, tokens, i + 1)
    ELSE IF sockaddr_from_str(family, tokens[1]).r = 0 - 1
         THEN match_token(a, family, tokens, i + 1)
    ELSE i

\* The name chosen as the DNS extractor chooses it: the line's first name for
\* AI_CANONNAME, else the name learned so far for AI_FQDN.
file_canonname_as_pkt(a, tokens) ==
    IF AI_CANONNAME \in a.hints.ai_flags THEN tokens[2]
    ELSE IF AI_FQDN \in a.hints.ai_flags THEN a.fqdn
    ELSE NULL

\* "if (ai_flags & (AI_CANONNAME | AI_FQDN)) c = tokens[1]; else c = NULL;"
\* (tokens[0] of the source, the address, is tokens[1] here).
file_canonname(a, tokens) ==
    IF a.hints.ai_flags \cap {AI_CANONNAME, AI_FQDN} # {} THEN tokens[2] ELSE NULL

\* addrinfo_from_file(as, family, f) from line k of the file on.
RECURSIVE addrinfo_from_file_at(_, _, _, _, _)
addrinfo_from_file_at(k, a, family, file, heap) ==
    IF k > Len(file) THEN [r |-> 0, errno |-> NoError, as |-> a, heap |-> heap]
    ELSE LET tokens == file[k]
             i == match_token(a, family, tokens, 2)
             c == file_canonname(a, tokens)
             u == sockaddr_from_str(family, tokens[1])
             add == addrinfo_add(a, u.sa, c, heap)
         IN  IF i > Len(tokens)
             THEN addrinfo_from_file_at(k + 1, a, family, file, heap)
             ELSE IF add.r # NoError
             THEN [r |-> 0 - 1, errno |-> ENOMEM, as |-> add.as, heap |-> add.heap]
             ELSE addrinfo_from_file_at(k + 1, add.as, family, file, add.heap)

addrinfo_from_file(a, family, file, heap) == addrinfo_from_file_at(1, a, family, file, heap)

\* ------------------------------------------------------ DNS answer extractor

\* asr_strdname(): the printable form of a name, every label followed by a dot
\* (the root alone prints as ".").
RECURSIVE strdname_from(_, _)
strdname_from(dname, i) ==
    IF i > Len(dname) THEN "" ELSE dname[i] \o "." \o strdname_from(dname, i + 1)

asr_strdname(dname) == IF Len(dname) = 0 THEN "." ELSE strdname_from(dname, 1)

\* buf[strlen(buf) - 1] = '\0'
\* The name kept with the trailing dot of asr_strdname().
strip_last_kept(buf) == buf

strip_last(buf) == SubSeq(buf, 1, Len(buf) - 1)

\* The loop over the answer records of addrinfo_from_pkt() from record i on; q is
\* the question unpacked before it.
RECURSIVE addrinfo_from_pkt_at(_, _, _, _, _)
addrinfo_from_pkt_at(i, a, q, an, heap) ==
    IF i > Len(an) THEN [r |-> 0, errno |-> NoError, as |-> a, heap |-> heap]
    ELSE LET rr == an[i]
             learn == a.fqdn = NULL
             a1 == IF learn THEN [a EXCEPT !.fqdn = strip_last(asr_strdname(q.q_dname))]
                   ELSE a
             h1 == IF learn THEN alloc_done(heap) ELSE heap
             u == IF rr.rr_type = T_A
                  THEN [sa_family |-> PF_INET, addr |-> rr.addr, port |-> htons(0)]
                  ELSE [sa_family |-> PF_INET6, addr |-> rr.addr, port |-> htons(0)]
             c == IF AI_CANONNAME \in a.hints.ai_flags
                  THEN strip_last(asr_strdname(rr.rr_dname))
                  ELSE IF AI_FQDN \in a.hints.ai_flags THEN a1.fqdn
                  ELSE NULL
             add == addrinfo_add(a1, u, c, h1)
         IN  IF rr.rr_type # q.q_type \/ rr.rr_class # q.q_class
             THEN addrinfo_from_pkt_at(i + 1, a, q, an, heap)
             ELSE IF learn /\ alloc_fails(heap)
             THEN [r |-> 0 - 1, errno |-> ENOMEM, as |-> a, heap |-> h1]
             ELSE IF rr.rr_type \notin {T_A, T_AAAA}
             THEN addrinfo_from_pkt_at(i + 1, a1, q, an, h1)
             ELSE IF add.r # NoError
             THEN [r |-> 0 - 1, errno |-> ENOMEM, as |-> add.as, heap |-> add.heap]
             ELSE addrinfo_from_pkt_at(i + 1, add.as, q, an, add.heap)

\* addrinfo_from_pkt(as, pkt, pktlen): the header's question (the last one
\* unpacked) and then the answer records.
addrinfo_from_pkt(a, pkt, heap) ==
    addrinfo_from_pkt_at(1, a, pkt.qd[Len(pkt.qd)], pkt.an, heap)

\* ------------------------------------------------------------ the request

NoSubq == [name |-> NULL, class |-> NULL, type |-> NULL]
NoPacket == [qd |-> <<>>, an |-> <<>>]
NoFile == [open |-> FALSE, lines |-> <<>>]
\* No asr_freeaddrinfo() call has been made: no list, the NULL pointer, no frees.
NoRelease == [list |-> <<>>, ai |-> 0, freed |-> <<>>]

\* What a read through ar.ar_data can give once "free(ar->ar_data)" has run:
\* the pointer is kept and dangles, so the response is still there or the
\* memory holds something else.
Indeterminate == [freed |-> TRUE]
after_free(data) == {data, Indeterminate}

\* What the same read can give after code that calls the allocator (the
\* creation or the run of a sub-query, fopen(), calloc(), strdup(), the
\* caller's own code between two calls): freed memory that still held the
\* response may have been handed out again.  Memory that is not freed, or that
\* has changed already, reads as before.
after_alloc(data) ==
    IF data \in {NoPacket, Indeterminate} THEN {data} ELSE after_free(data)

\* The hints argument is the NULL pointer.  (An argument is either NULL or a
\* record; the two are told apart by their printed form.)
no_hints(hints) == ToString(hints) = ToString(NULL)

\* "memset(&as->as.ai.hints, 0, ...); as->as.ai.hints.ai_family = PF_UNSPEC;"
ZeroHints ==
    [ai_family |-> PF_UNSPEC, ai_socktype |-> SOCK_ANY, ai_protocol |-> IPPROTO_ANY,
     ai_flags |-> {}, ai_other |-> FALSE]

\* getaddrinfo_async(hostname, servname, hints, asr): the new request, or NULL
\* when async_new() or a strdup() fails.  Every field that is not copied from
\* the arguments is zeroed by async_new(), as.ai.flags included; the context
\* of asr is kept by async_new() (the variable ctx).
getaddrinfo_async(hostname, servname, hints, asr, heap) ==
    LET h1 == alloc_done(heap)
        h2 == IF hostname # NULL THEN alloc_done(h1) ELSE h1
    IN  IF alloc_fails(heap) THEN NULL
        ELSE IF hostname # NULL /\ alloc_fails(h1) THEN NULL
        ELSE IF servname # NULL /\ alloc_fails(h2) THEN NULL
        ELSE [as_state |-> ASR_STATE_INIT,
              as_count |-> 0,
              as_db_idx |-> 0,
              as_family_idx |-> 0,
              hostname |-> hostname,
              servname |-> servname,
              hints |-> IF no_hints(hints) THEN ZeroHints ELSE hints,
              port_tcp |-> 0,
              port_udp |-> 0,
              fqdn |-> NULL,
              aifirst |-> <<>>,
              subq |-> NoSubq,
              flags |-> {}]

\* The request marked by the library before it is run: as.ai.flags is read at
\* line 407 and written nowhere in this file.
marked(a, flags) == [a EXCEPT !.flags = flags]

async_set_state(a, state) == [a EXCEPT !.as_state = state]

\* "ar->ar_gai_errno = e; async_set_state(as, ASR_STATE_HALT); break;"
halt_with(a, r, e) ==
    [as |-> async_set_state(a, ASR_STATE_HALT), ar |-> [r EXCEPT !.ar_gai_errno = e]]

\* "if (errno == ENOMEM) EAI_MEMORY else EAI_FAIL"
gai_of_errno(errno) == IF errno = ENOMEM THEN EAI_MEMORY ELSE EAI_FAIL

\* ------------------------------------------------------- ASR_STATE_INIT

\* The test of SOCK_RAW made against the hostname instead of the service name.
raw_with_service_hostname(a) == a.hints.ai_socktype = SOCK_RAW /\ a.hostname # NULL

\* "if (ai->ai_socktype == SOCK_RAW && as->as.ai.servname != NULL)"
raw_with_service(a) == a.hints.ai_socktype = SOCK_RAW /\ a.servname # NULL

\* "if (matches[i].family == -1)" after the loop over the table
no_match(ai) == first_match(ai, 1) > Len(matches)

\* The hint checks of ASR_STATE_INIT up to the compatibility check: the error that
\* ends the request, NoError when the hints pass.
check_hints(a, b) ==
    LET ai == a.hints
    IN  IF a.hostname = NULL /\ a.servname = NULL THEN EAI_NONAME
        ELSE IF b.EAI_BADHINTS /\ ai.ai_other THEN EAI_BADHINTS
        ELSE IF \/ ai.ai_flags \ AI_MASK # {}
                \/ (AI_CANONNAME \in ai.ai_flags /\ AI_FQDN \in ai.ai_flags)
        THEN EAI_BADFLAGS
        ELSE IF ai.ai_family \notin {PF_UNSPEC, PF_INET, PF_INET6} THEN EAI_FAMILY
        ELSE IF ai.ai_socktype \notin {SOCK_ANY, SOCK_DGRAM, SOCK_STREAM, SOCK_RAW}
        THEN EAI_SOCKTYPE
        ELSE IF raw_with_service(a) THEN EAI_SERVICE
        ELSE IF no_match(ai)
        THEN (IF b.EAI_BADHINTS THEN EAI_BADHINTS ELSE EAI_FAIL)
        ELSE NoError

\* The two get_port() calls: the request with port_udp and port_tcp resolved.
resolve_ports(a, b) ==
    LET ai == a.hints
        numonly == AI_NUMERICSERV \in ai.ai_flags
        a1 == IF ai.ai_protocol \in {IPPROTO_ANY, IPPROTO_UDP}
              THEN [a EXCEPT !.port_udp = get_port(a.servname, "udp", numonly, b)]
              ELSE a
    IN  IF ai.ai_protocol \in {IPPROTO_ANY, IPPROTO_TCP}
        THEN [a1 EXCEPT !.port_tcp = get_port(a.servname, "tcp", numonly, b)]
        ELSE a1

\* "if (as->as.ai.port_tcp == -2 || ...)": the service cannot be used.
bad_service(a) ==
    \/ a.port_tcp = 0 - 2
    \/ a.port_udp = 0 - 2
    \/ (a.port_tcp = 0 - 1 /\ a.port_udp = 0 - 1)
    \/ (a.hints.ai_protocol # IPPROTO_ANY /\ (a.port_udp = 0 - 1 \/ a.port_tcp = 0 - 1))

\* The local address with the test of AI_PASSIVE inverted.
local_str_inverted(a, family) ==
    IF family = PF_INET
    THEN (IF AI_PASSIVE \in a.hints.ai_flags THEN "127.0.0.1" ELSE "0.0.0.0")
    ELSE (IF AI_PASSIVE \in a.hints.ai_flags THEN "::1" ELSE "::")

\* The text of the local address of a family.
local_str(a, family) ==
    IF family = PF_INET
    THEN (IF AI_PASSIVE \in a.hints.ai_flags THEN "0.0.0.0" ELSE "127.0.0.1")
    ELSE (IF AI_PASSIVE \in a.hints.ai_flags THEN "::" ELSE "::1")

\* The loop over the families when hostname is NULL, entered with the family
\* iter_family() returned.
RECURSIVE local_loop(_, _, _, _, _)
local_loop(a, r, c, family, heap) ==
    IF family = NoFamily THEN [as |-> a, ar |-> r]
    ELSE LET sa == sockaddr_from_str(family, local_str(a, family)).sa
             add == addrinfo_add(a, sa, NULL, heap)
             it == iter_family(add.as, c, FALSE)
         IN  IF add.r # NoError
             THEN [as |-> add.as, ar |-> [r EXCEPT !.ar_gai_errno = add.r]]
             ELSE local_loop(it.as, r, c, it.family, add.heap)

\* The loop "Try numeric addresses first", entered with the family iter_family()
\* returned.
RECURSIVE numeric_loop(_, _, _, _, _)
numeric_loop(a, r, c, family, heap) ==
    IF family = NoFamily THEN [as |-> a, ar |-> r]
    ELSE LET p == sockaddr_from_str(family, a.hostname)
             add == addrinfo_add(a, p.sa, NULL, heap)
             it == iter_family(a, c, FALSE)
         IN  IF p.r = 0 - 1
             THEN numeric_loop(it.as, r, c, it.family, heap)
             ELSE IF add.r # NoError
             THEN [as |-> add.as, ar |-> [r EXCEPT !.ar_gai_errno = add.r]]
             ELSE [as |-> add.as, ar |-> r]

\* ASR_STATE_INIT without the test of AI_NUMERICHOST.
state_init_any_host(a, r, c, b, heap) ==
    LET a0 == [a EXCEPT !.as_count = 0]
        e == check_hints(a0, b)
        a1 == resolve_ports(a0, b)
        r1 == [r EXCEPT !.ar_gai_errno = NoError]
        first == iter_family(a1, c, TRUE)
        loc == local_loop(first.as, r1, c, first.family, heap)
        num == numeric_loop(first.as, r1, c, first.family, heap)
    IN  IF e # NoError THEN halt_with(a0, r, e)
        ELSE IF bad_service(a1) THEN halt_with(a1, r, EAI_SERVICE)
        ELSE IF a1.hostname = NULL
        THEN IF loc.ar.ar_gai_errno = NoError /\ loc.as.as_count = 0
             THEN halt_with(loc.as, loc.ar, EAI_NODATA)
             ELSE [as |-> async_set_state(loc.as, ASR_STATE_HALT), ar |-> loc.ar]
        ELSE IF num.ar.ar_gai_errno # NoError \/ num.as.as_count # 0
        THEN [as |-> async_set_state(num.as, ASR_STATE_HALT), ar |-> num.ar]
        ELSE [as |-> async_set_state(num.as, ASR_STATE_NEXT_DB), ar |-> num.ar]

\* case ASR_STATE_INIT, the allocations of the step failing as heap says.
state_init(a, r, c, b, heap) ==
    LET a0 == [a EXCEPT !.as_count = 0]
        e == check_hints(a0, b)
        a1 == resolve_ports(a0, b)
        r1 == [r EXCEPT !.ar_gai_errno = NoError]
        first == iter_family(a1, c, TRUE)
        loc == local_loop(first.as, r1, c, first.family, heap)
        num == numeric_loop(first.as, r1, c, first.family, heap)
    IN  IF e # NoError THEN halt_with(a0, r, e)
        ELSE IF bad_service(a1) THEN halt_with(a1, r, EAI_SERVICE)
        ELSE IF a1.hostname = NULL
        THEN IF loc.ar.ar_gai_errno = NoError /\ loc.as.as_count = 0
             THEN halt_with(loc.as, loc.ar, EAI_NODATA)
             ELSE [as |-> async_set_state(loc.as, ASR_STATE_HALT), ar |-> loc.ar]
        ELSE IF num.ar.ar_gai_errno # NoError \/ num.as.as_count # 0
        THEN [as |-> async_set_state(num.as, ASR_STATE_HALT), ar |-> num.ar]
        ELSE IF AI_NUMERICHOST \in a1.hints.ai_flags
        THEN halt_with(num.as, num.ar, EAI_FAIL)
        ELSE [as |-> async_set_state(num.as, ASR_STATE_NEXT_DB), ar |-> num.ar]

\* ------------------------------------------------------------- the inputs

NameHost == "www.example.com"
V4Host == "192.0.2.1"
V6Host == "2001:db8::7"

DefaultDbs == <<ASR_DB_FILE, ASR_DB_DNS>>
DefaultFamilies == <<PF_INET, PF_INET6, NoFamily>>
OtherFamilies == <<PF_INET6, PF_INET, NoFamily>>

\* Every combination of the hint fields, those outside the interface's vocabulary
\* included, for requests that exercise the checks of ASR_STATE_INIT.
CheckedHints ==
    [ai_family : {PF_UNSPEC, PF_INET, PF_INET6, PF_LOCAL},
     ai_socktype : {SOCK_ANY, SOCK_STREAM, SOCK_DGRAM, SOCK_RAW, SOCK_SEQPACKET},
     ai_protocol : {IPPROTO_ANY, IPPROTO_TCP, IPPROTO_UDP, IPPROTO_ICMP},
     ai_flags : { {}, {AI_CANONNAME, AI_FQDN}, {AI_V4MAPPED} },
     ai_other : BOOLEAN]

\* Hints for requests answered in ASR_STATE_INIT from a local or numeric address.
LocalHints ==
    [ai_family : {PF_UNSPEC, PF_INET, PF_INET6},
     ai_socktype : {SOCK_ANY, SOCK_STREAM, SOCK_DGRAM, SOCK_RAW},
     ai_protocol : {IPPROTO_ANY, IPPROTO_TCP, IPPROTO_UDP},
     ai_flags : { {}, {AI_PASSIVE}, {AI_NUMERICHOST} },
     ai_other : {FALSE}]

\* Hints for requests that go through the backends.
LookupHints ==
    { h \in [ai_family : {PF_UNSPEC, PF_INET, PF_INET6},
             ai_socktype : {SOCK_ANY, SOCK_STREAM},
             ai_protocol : {IPPROTO_ANY, IPPROTO_TCP},
             ai_flags : { {}, {AI_CANONNAME}, {AI_FQDN} },
             ai_other : {FALSE}] :
        h.ai_socktype = SOCK_ANY \/ h.ai_protocol = IPPROTO_ANY }

\* Hints for requests that exercise the service name.
ServiceHints ==
    [ai_family : {PF_INET},
     ai_socktype : {SOCK_ANY},
     ai_protocol : {IPPROTO_ANY, IPPROTO_TCP, IPPROTO_UDP},
     ai_flags : { {}, {AI_NUMERICSERV} },
     ai_other : {FALSE}]

\* What the hosts file may hold: lines split into tokens, the address first.
OneLineFile == << <<"192.0.2.10", "www.example.com", "www">> >>

HostFiles == {
    OneLineFile,
    << <<"192.0.2.20", "WWW.Example.Com">>,
       <<"2001:db8::7", "www6.example.com", "www.example.com">>,
       <<"192.0.2.30", "mail.example.com">> >>,
    << <<"192.0.2.30", "mail.example.com">>, <<"192.0.2.31">> >> }

\* The requests, each with the configuration (ac_db, and ac_family ending with
\* -1) and the build it runs under.  Each is also made with no hints at all
\* (the NULL pointer in place of the hints field).
CheckedRequests ==
    [hostname : {NULL, V4Host, NameHost}, servname : {NULL, "80"}, hints : CheckedHints,
     flags : {{}}, ac_db : {<<>>}, ac_family : {DefaultFamilies},
     hosts : {OneLineFile}, EAI_BADHINTS : BOOLEAN,
     HAVE_GETSERVBYNAME_R_4_ARGS : {TRUE}]

LocalRequests ==
    [hostname : {NULL, V4Host, V6Host}, servname : {NULL, "80", "tftp", "nosuch"},
     hints : LocalHints,
     flags : {{}}, ac_db : {DefaultDbs}, ac_family : {DefaultFamilies, OtherFamilies},
     hosts : {OneLineFile}, EAI_BADHINTS : {TRUE},
     HAVE_GETSERVBYNAME_R_4_ARGS : BOOLEAN]

NumericOnlyRequests ==
    [hostname : {NameHost}, servname : {NULL, "80"},
     hints : { h \in LocalHints : h.ai_flags = {AI_NUMERICHOST} },
     flags : {{}}, ac_db : {DefaultDbs}, ac_family : {DefaultFamilies},
     hosts : {OneLineFile}, EAI_BADHINTS : BOOLEAN,
     HAVE_GETSERVBYNAME_R_4_ARGS : {TRUE}]

ServiceRequests ==
    [hostname : {V4Host}, servname : {NULL, "80", "70000", "-1", "smtp", "tftp", "nosuch"},
     hints : ServiceHints,
     flags : {{}}, ac_db : {DefaultDbs}, ac_family : {DefaultFamilies},
     hosts : {OneLineFile}, EAI_BADHINTS : {TRUE},
     HAVE_GETSERVBYNAME_R_4_ARGS : BOOLEAN]

LookupConfigs ==
    { <<db, DefaultFamilies>> : db \in { <<>>, DefaultDbs, <<ASR_DB_DNS, ASR_DB_FILE>>,
                                         <<ASR_DB_YP, ASR_DB_FILE>> } }
        \cup { <<DefaultDbs, OtherFamilies>> }

LookupRequests ==
    { [hostname |-> NameHost, servname |-> s, hints |-> h, flags |-> fl,
       ac_db |-> c[1], ac_family |-> c[2], hosts |-> l, EAI_BADHINTS |-> TRUE,
       HAVE_GETSERVBYNAME_R_4_ARGS |-> TRUE] :
        s \in {NULL, "80"}, h \in LookupHints, fl \in {{}, {ASYNC_AGAIN}},
        c \in LookupConfigs, l \in HostFiles }

\* Lookups of a service that has a port for UDP only.
UdpOnlyRequests ==
    [hostname : {NameHost}, servname : {"tftp"},
     hints : { h \in LookupHints : h.ai_flags = {} /\ h.ai_family # PF_INET6 },
     flags : {{}}, ac_db : {DefaultDbs}, ac_family : {DefaultFamilies},
     hosts : {OneLineFile}, EAI_BADHINTS : {TRUE},
     HAVE_GETSERVBYNAME_R_4_ARGS : {TRUE}]

Requests ==
    CheckedRequests \cup LocalRequests \cup NumericOnlyRequests
        \cup ServiceRequests \cup LookupRequests \cup UdpOnlyRequests

\* dname_from_fqdn(): the labels of a name written with dots.
RECURSIVE labels_from(_, _)
labels_from(s, i) ==
    LET later == { k \in DotsOf(s) : k >= i }
        d == CHOOSE k \in later : \A j \in later : k <= j
    IN  IF i > Len(s) THEN <<>>
        ELSE IF later = {} THEN << SubSeq(s, i, Len(s)) >>
        ELSE << SubSeq(s, i, d - 1) >> \o labels_from(s, d + 1)

dname_from_fqdn(s) == labels_from(s, 1)

AddrsOf(type) ==
    IF type = T_A THEN << <<192, 0, 2, 1>>, <<192, 0, 2, 2>> >>
    ELSE << <<8193, 3512, 0, 0, 0, 0, 0, 1>>, <<8193, 3512, 0, 0, 0, 0, 0, 2>> >>

\* The responses a completed sub-query may hand back for its question: no answer
\* record, one or two address records of the queried name, an alias followed by
\* the address record of its target.
Replies(subq) ==
    LET qname == dname_from_fqdn(subq.name)
        q == [q_dname |-> qname, q_type |-> subq.type, q_class |-> subq.class]
        rr(n, t, k) == [rr_dname |-> n, rr_type |-> t, rr_class |-> C_IN,
                        addr |-> AddrsOf(subq.type)[k]]
        target == <<"host", "example", "net">>
    IN  { [qd |-> <<q>>, an |-> an] : an \in {
            <<>>,
            << rr(qname, subq.type, 1) >>,
            << rr(qname, subq.type, 1), rr(qname, subq.type, 2) >>,
            << rr(qname, T_CNAME, 1), rr(target, subq.type, 2) >> } }

\* ---------------------------------------------------------------- actions

Init ==
    /\ \E rq \in Requests :
          /\ \E failAt \in 0..(MaxAlloc + 1), given \in BOOLEAN :
                LET asr == [ac_db |-> rq.ac_db, ac_family |-> rq.ac_family]
                    a == getaddrinfo_async(rq.hostname, rq.servname,
                                           IF given THEN rq.hints ELSE NULL, asr,
                                           [n |-> 0, failAt |-> failAt])
                IN  /\ ToString(a) # ToString(NULL)
                    /\ as = marked(a, rq.flags)
                    /\ ctx = asr
          /\ hosts = rq.hosts
          /\ build = [EAI_BADHINTS |-> rq.EAI_BADHINTS,
                      HAVE_GETSERVBYNAME_R_4_ARGS |-> rq.HAVE_GETSERVBYNAME_R_4_ARGS]
    /\ ar = [ar_gai_errno |-> NoError, ar_count |-> 0, ar_addrinfo |-> <<>>,
             ar_datalen |-> 0, ar_data |-> NoPacket]
    /\ run = [active |-> FALSE, ret |-> NULL, pending |-> 0]
    /\ f = NoFile
    /\ rel = NoRelease
    /\ fetched = <<>>

\* The caller runs the request: the first call, or the call after ASYNC_COND.
Resume ==
    /\ ~run.active
    /\ run.ret # ASYNC_DONE
    /\ run' = [run EXCEPT !.active = TRUE]
    /\ \E mem \in after_alloc(ar.ar_data) : ar' = [ar EXCEPT !.ar_data = mem]
    /\ UNCHANGED <<as, ctx, f, hosts, build, rel, fetched>>

\* case ASR_STATE_INIT
StateInit ==
    /\ run.active
    /\ as.as_state = ASR_STATE_INIT
    /\ \E failAt \in 0..MaxAlloc :
          LET res == state_init(as, ar, ctx, build, [n |-> 0, failAt |-> failAt])
          IN  as' = res.as /\ ar' = res.ar
    /\ UNCHANGED <<ctx, run, f, hosts, build, rel, fetched>>

\* The backend step that starts over from the first backend when the list is
\* exhausted.
next_db_restart(a, c) ==
    LET it == asr_iter_db(a, c)
    IN  IF it.r = 0 - 1 THEN async_set_state([a EXCEPT !.as_db_idx = 0], ASR_STATE_NEXT_DB)
        ELSE async_set_state([it.as EXCEPT !.as_family_idx = 0], ASR_STATE_SAME_DB)

\* case ASR_STATE_NEXT_DB
next_db(a, c) ==
    LET it == asr_iter_db(a, c)
    IN  IF it.r = 0 - 1 THEN async_set_state(a, ASR_STATE_NOT_FOUND)
        ELSE async_set_state([it.as EXCEPT !.as_family_idx = 0], ASR_STATE_SAME_DB)

StateNextDb ==
    /\ run.active
    /\ as.as_state = ASR_STATE_NEXT_DB
    /\ as' = next_db(as, ctx)
    /\ UNCHANGED <<ar, ctx, run, f, hosts, build, rel, fetched>>

\* The family step without "as->as_family_idx += 1".
next_family_again(a, r, c) ==
    IF a.hints.ai_family # PF_UNSPEC \/ AS_FAMILY(a, c) = NoFamily
    THEN IF a.as_count # 0
         THEN halt_with(a, r, NoError)
         ELSE [as |-> async_set_state(a, ASR_STATE_NEXT_DB), ar |-> r]
    ELSE [as |-> async_set_state(a, ASR_STATE_SAME_DB), ar |-> r]

\* case ASR_STATE_NEXT_FAMILY
next_family(a, r, c) ==
    LET a1 == [a EXCEPT !.as_family_idx = @ + 1]
    IN  IF a1.hints.ai_family # PF_UNSPEC \/ AS_FAMILY(a1, c) = NoFamily
        THEN IF a1.as_count # 0
             THEN halt_with(a1, r, NoError)
             ELSE [as |-> async_set_state(a1, ASR_STATE_NEXT_DB), ar |-> r]
        ELSE [as |-> async_set_state(a1, ASR_STATE_SAME_DB), ar |-> r]

StateNextFamily ==
    /\ run.active
    /\ as.as_state = ASR_STATE_NEXT_FAMILY
    /\ LET res == next_family(as, ar, ctx) IN as' = res.as /\ ar' = res.ar
    /\ UNCHANGED <<ctx, run, f, hosts, build, rel, fetched>>

\* The family the current backend is asked for.
query_family(a, c) ==
    IF a.hints.ai_family = PF_UNSPEC THEN AS_FAMILY(a, c) ELSE a.hints.ai_family

\* What an attempt of ASR_STATE_SAME_DB asks: the backend at the backend
\* cursor, for the family of the attempt.  The response of a sub-query, once
\* async_run() has handed it over, is noted with the attempt that asked for it.
attempt(a, c) ==
    [as_db_idx |-> a.as_db_idx, as_family_idx |-> a.as_family_idx,
     db |-> AS_DB(a, c), family |-> query_family(a, c), reply |-> NoPacket]

\* res_query_async_ctx(fqdn, ...) or res_search_async_ctx(hostname, ...)
new_subq(a, c) ==
    [name |-> IF a.fqdn # NULL THEN a.fqdn ELSE a.hostname,
     class |-> C_IN,
     type |-> IF query_family(a, c) = PF_INET6 THEN T_AAAA ELSE T_A]

\* case ASR_STATE_SAME_DB, case ASR_DB_DNS: the sub-query is created, or its
\* creation fails with errno.  mem is what ar.ar_data reads as afterwards.
same_db_dns(a, r, c, errno, mem) ==
    LET r1 == [r EXCEPT !.ar_data = mem]
    IN  IF errno # NoError
        THEN halt_with(a, r1, gai_of_errno(errno))
        ELSE [as |-> async_set_state([a EXCEPT !.subq = new_subq(a, c)],
                                     ASR_STATE_SUBQUERY),
              ar |-> r1]

StateSameDbDns ==
    /\ run.active
    /\ as.as_state = ASR_STATE_SAME_DB
    /\ AS_DB(as, ctx) = ASR_DB_DNS
    /\ \E errno \in {NoError, ENOMEM, EINVAL}, mem \in after_alloc(ar.ar_data) :
          LET res == same_db_dns(as, ar, ctx, errno, mem)
          IN  as' = res.as /\ ar' = res.ar
    /\ fetched' = Append(fetched, attempt(as, ctx))
    /\ UNCHANGED <<ctx, run, f, hosts, build, rel>>

\* ASR_DB_FILE with the return value of addrinfo_from_file() ignored.
same_db_file_unchecked(a, r, c, file, heap, mem) ==
    LET res == addrinfo_from_file(a, query_family(a, c), file.lines, heap)
        r1 == [r EXCEPT !.ar_data = mem]
    IN  IF ~file.open
        THEN [as |-> async_set_state(a, ASR_STATE_NEXT_DB), ar |-> r1]
        ELSE [as |-> async_set_state(res.as, ASR_STATE_NEXT_FAMILY), ar |-> r1]

\* case ASR_STATE_SAME_DB, case ASR_DB_FILE: file is what fopen() returned,
\* mem what ar.ar_data reads as after fopen() and the allocations of the scan.
same_db_file(a, r, c, file, heap, mem) ==
    LET res == addrinfo_from_file(a, query_family(a, c), file.lines, heap)
        r1 == [r EXCEPT !.ar_data = mem]
    IN  IF ~file.open
        THEN [as |-> async_set_state(a, ASR_STATE_NEXT_DB), ar |-> r1]
        ELSE IF res.r = 0 - 1
        THEN halt_with(res.as, r1, gai_of_errno(res.errno))
        ELSE [as |-> async_set_state(res.as, ASR_STATE_NEXT_FAMILY), ar |-> r1]

StateSameDbFile ==
    /\ run.active
    /\ as.as_state = ASR_STATE_SAME_DB
    /\ AS_DB(as, ctx) = ASR_DB_FILE
    /\ \E file \in {NoFile, [open |-> TRUE, lines |-> hosts]}, failAt \in 0..MaxAlloc,
          mem \in after_alloc(ar.ar_data) :
          LET res == same_db_file(as, ar, ctx, file, [n |-> 0, failAt |-> failAt], mem)
          IN  as' = res.as /\ ar' = res.ar /\ f' = file
    /\ fetched' = Append(fetched, attempt(as, ctx))
    /\ UNCHANGED <<ctx, run, hosts, build, rel>>

\* case ASR_STATE_SAME_DB, default (ASR_DB_YP too in a build without YP)
StateSameDbOther ==
    /\ run.active
    /\ as.as_state = ASR_STATE_SAME_DB
    /\ AS_DB(as, ctx) \notin {ASR_DB_DNS, ASR_DB_FILE}
    /\ as' = async_set_state(as, ASR_STATE_NEXT_DB)
    /\ UNCHANGED <<ar, ctx, run, f, hosts, build, rel, fetched>>

\* The pending return of ASR_STATE_SUBQUERY that also drops the sub-query.
StateSubqueryCond_dropped ==
    /\ run.active
    /\ as.as_state = ASR_STATE_SUBQUERY
    /\ run.pending < MaxPending
    /\ run' = [active |-> FALSE, ret |-> ASYNC_COND, pending |-> run.pending + 1]
    /\ as' = [as EXCEPT !.subq = NoSubq]
    /\ UNCHANGED <<ar, ctx, f, hosts, build, rel, fetched>>

\* case ASR_STATE_SUBQUERY, async_run() of the sub-query returning ASYNC_COND
StateSubqueryCond ==
    /\ run.active
    /\ as.as_state = ASR_STATE_SUBQUERY
    /\ run.pending < MaxPending
    /\ run' = [active |-> FALSE, ret |-> ASYNC_COND, pending |-> run.pending + 1]
    /\ \E mem \in after_alloc(ar.ar_data) : ar' = [ar EXCEPT !.ar_data = mem]
    /\ UNCHANGED <<as, ctx, f, hosts, build, rel, fetched>>

\* ASR_STATE_SUBQUERY with "as->as.ai.subq = NULL" left out.
subquery_done_owned(a, r, datalen, data, heap, freed) ==
    LET res == addrinfo_from_pkt(a, data, heap)
        r1 == [r EXCEPT !.ar_datalen = datalen, !.ar_data = freed]
    IN  IF datalen = 0 - 1
        THEN [as |-> async_set_state(a, ASR_STATE_NEXT_FAMILY),
              ar |-> [r EXCEPT !.ar_datalen = datalen, !.ar_data = data]]
        ELSE IF res.r = 0 - 1
        THEN halt_with(res.as, r1, gai_of_errno(res.errno))
        ELSE [as |-> async_set_state(res.as, ASR_STATE_NEXT_FAMILY), ar |-> r1]

\* case ASR_STATE_SUBQUERY once the sub-query is done: datalen and data are what
\* it left in ar.  Without a response (ar_datalen -1) nothing is freed; with
\* one, the entries are extracted and the response is freed whether or not
\* the extraction failed, and freed is what ar.ar_data then reads as.
subquery_done(a, r, datalen, data, heap, freed) ==
    LET a1 == [a EXCEPT !.subq = NoSubq]
        res == addrinfo_from_pkt(a1, data, heap)
        r1 == [r EXCEPT !.ar_datalen = datalen, !.ar_data = freed]
    IN  IF datalen = 0 - 1
        THEN [as |-> async_set_state(a1, ASR_STATE_NEXT_FAMILY),
              ar |-> [r EXCEPT !.ar_datalen = datalen, !.ar_data = data]]
        ELSE IF res.r = 0 - 1
        THEN halt_with(res.as, r1, gai_of_errno(res.errno))
        ELSE [as |-> async_set_state(res.as, ASR_STATE_NEXT_FAMILY), ar |-> r1]

StateSubqueryDone ==
    /\ run.active
    /\ as.as_state = ASR_STATE_SUBQUERY
    /\ \/ LET res == subquery_done(as, ar, 0 - 1, NoPacket, [n |-> 0, failAt |-> 0],
                                    NoPacket)
          IN  as' = res.as /\ ar' = res.ar /\ fetched' = fetched
       \/ \E data \in Replies(as.subq), failAt \in 0..MaxAlloc :
             \E freed \in after_free(data) :
                LET res == subquery_done(as, ar, 1, data, [n |-> 0, failAt |-> failAt],
                                         freed)
                IN  /\ as' = res.as
                    /\ ar' = res.ar
                    /\ fetched' = [fetched EXCEPT ![Len(fetched)].reply = data]
    /\ UNCHANGED <<ctx, run, f, hosts, build, rel>>

\* ASR_STATE_NOT_FOUND with the two error codes exchanged.
not_found_swapped(a, r) ==
    halt_with(a, r, IF ASYNC_AGAIN \in a.flags THEN EAI_NODATA ELSE EAI_AGAIN)

\* case ASR_STATE_NOT_FOUND
not_found(a, r) ==
    halt_with(a, r, IF ASYNC_AGAIN \in a.flags THEN EAI_AGAIN ELSE EAI_NODATA)

StateNotFound ==
    /\ run.active
    /\ as.as_state = ASR_STATE_NOT_FOUND
    /\ LET res == not_found(as, ar) IN as' = res.as /\ ar' = res.ar
    /\ UNCHANGED <<ctx, run, f, hosts, build, rel, fetched>>

\* ASR_STATE_HALT handing the list over without taking it off the request.
halt_kept(a, r) ==
    IF r.ar_gai_errno = NoError
    THEN [as |-> a, ar |-> [r EXCEPT !.ar_count = a.as_count, !.ar_addrinfo = a.aifirst]]
    ELSE [as |-> a, ar |-> [r EXCEPT !.ar_count = 0, !.ar_addrinfo = <<>>]]

\* case ASR_STATE_HALT: the result is handed over, the call returns ASYNC_DONE.
halt(a, r) ==
    IF r.ar_gai_errno = NoError
    THEN [as |-> [a EXCEPT !.aifirst = <<>>],
          ar |-> [r EXCEPT !.ar_count = a.as_count, !.ar_addrinfo = a.aifirst]]
    ELSE [as |-> a, ar |-> [r EXCEPT !.ar_count = 0, !.ar_addrinfo = <<>>]]

StateHalt ==
    /\ run.active
    /\ as.as_state = ASR_STATE_HALT
    /\ LET res == halt(as, ar) IN as' = res.as /\ ar' = res.ar
    /\ run' = [run EXCEPT !.active = FALSE, !.ret = ASYNC_DONE]
    /\ UNCHANGED <<ctx, f, hosts, build, rel, fetched>>

Next ==
    \/ Resume
    \/ StateInit
    \/ StateNextDb
    \/ StateNextFamily
    \/ StateSameDbDns
    \/ StateSameDbFile
    \/ StateSameDbOther
    \/ StateSubqueryCond
    \/ StateSubqueryDone
    \/ StateNotFound
    \/ StateHalt

Spec == Init /\ [][Next]_vars

\* ------------------------------------------------------------- properties

\* The call that returned ASYNC_DONE: ar holds the final result.
Done == ~run.active /\ run.ret = ASYNC_DONE

\* The families a request asks for: the pinned one, or those of the configuration.
RequestedFamilies ==
    IF as.hints.ai_family # PF_UNSPEC THEN {as.hints.ai_family}
    ELSE { ctx.ac_family[k] : k \in 1..(Len(ctx.ac_family) - 1) }

\* No backend was ever selected, no hosts file opened, no sub-query created.
NoBackendTouched ==
    /\ as.as_db_idx = 0
    /\ as.as_state \in {ASR_STATE_INIT, ASR_STATE_HALT}
    /\ as.subq = NoSubq
    /\ f = NoFile
    /\ ar.ar_data = NoPacket

LiteralFamilies ==
    { fam \in RequestedFamilies : sockaddr_from_str(fam, as.hostname).r = 0 }

\* C1 (as claimed): a request whose hostname is a numeric address of a requested
\* family never selects a backend, and every entry of its result carries the
\* address of that literal.
C1_NumericShortCircuit ==
    (as.hostname # NULL /\ LiteralFamilies # {}) =>
        /\ NoBackendTouched
        /\ \A k \in 1..Len(ar.ar_addrinfo) :
              \E fam \in LiteralFamilies :
                  ar.ar_addrinfo[k].ai_addr.addr = sockaddr_from_str(fam, as.hostname).sa.addr

\* C2 (as claimed): once an entry has been appended no further backend is selected:
\* the request is never in ASR_STATE_NEXT_DB, and never starts a backend at its
\* first family, with a non-empty output list.
C2_StopAtFirstSuccess ==
    /\ as.as_state = ASR_STATE_NEXT_DB => as.as_count = 0
    /\ (as.as_state = ASR_STATE_SAME_DB /\ as.as_family_idx = 0) => as.as_count = 0

\* C3: when the backends are exhausted the request goes to ASR_STATE_NOT_FOUND;
\* from there, with no address found, the result is EAI_AGAIN if ASYNC_AGAIN is
\* set and EAI_NODATA if not, and it carries no address and the count 0.
C3_Step ==
    /\ (as.as_state = ASR_STATE_NEXT_DB /\ as.as_db_idx >= Len(ctx.ac_db))
          => as'.as_state = ASR_STATE_NOT_FOUND
    /\ (as.as_state = ASR_STATE_NOT_FOUND /\ as.as_count = 0)
          => /\ as'.as_state = ASR_STATE_HALT
             /\ ASYNC_AGAIN \in as.flags => ar'.ar_gai_errno = EAI_AGAIN
             /\ ASYNC_AGAIN \notin as.flags => ar'.ar_gai_errno = EAI_NODATA
    /\ (as.as_state = ASR_STATE_HALT /\ ar.ar_gai_errno \in {EAI_AGAIN, EAI_NODATA})
          => /\ run'.ret = ASYNC_DONE
             /\ ar'.ar_gai_errno = ar.ar_gai_errno
             /\ ar'.ar_count = 0
             /\ ar'.ar_addrinfo = <<>>

C3_ExhaustedIsNoDataOrAgain == [][run.active => C3_Step]_vars

C3_Witness ==
    /\ Done
    /\ Len(ctx.ac_db) > 0
    /\ as.as_db_idx = Len(ctx.ac_db)
    /\ as.as_count = 0
    /\ ar.ar_gai_errno = EAI_AGAIN
    /\ ar.ar_count = 0

\* C4 (as claimed): in ASR_STATE_NOT_FOUND, and when the result is EAI_NODATA or
\* EAI_AGAIN, the output count is 0 and the output list is empty.
C4_NotFoundMeansEmpty ==
    (\/ as.as_state = ASR_STATE_NOT_FOUND
     \/ (as.as_state = ASR_STATE_HALT /\ ar.ar_gai_errno \in {EAI_NODATA, EAI_AGAIN}))
        => (as.as_count = 0 /\ as.aifirst = <<>>)

\* The error kinds of the interface as sets of codes.
InvalidArgument == {EAI_NONAME, EAI_BADFLAGS, EAI_FAMILY, EAI_SOCKTYPE, EAI_BADHINTS}

RawWithService == as.hints.ai_socktype = SOCK_RAW /\ as.servname # NULL

\* The hint fields other than the socket type are acceptable to this build.
OtherHintsValid ==
    /\ as.hints.ai_flags \subseteq AI_MASK
    /\ ~(AI_CANONNAME \in as.hints.ai_flags /\ AI_FQDN \in as.hints.ai_flags)
    /\ as.hints.ai_family \in {PF_UNSPEC, PF_INET, PF_INET6}
    /\ build.EAI_BADHINTS => ~as.hints.ai_other

\* The request failed in ASR_STATE_INIT before anything was built or attempted.
FailedInInit ==
    /\ as.as_state = ASR_STATE_HALT
    /\ ar.ar_gai_errno # NoError
    /\ NoBackendTouched
    /\ as.as_count = 0
    /\ as.aifirst = <<>>
    /\ ar.ar_count = 0
    /\ ar.ar_addrinfo = <<>>

\* C5 (as claimed): SOCK_RAW with a service name fails with an invalid-argument
\* code straight from ASR_STATE_INIT, nothing built and no backend attempted.
C5_RawServiceInvalidArgument ==
    (RawWithService /\ as.as_state # ASR_STATE_INIT) =>
        (FailedInInit /\ ar.ar_gai_errno \in InvalidArgument)

\* C5 (amended): SOCK_RAW with a service name fails straight from ASR_STATE_INIT,
\* nothing built and no backend attempted; the code is EAI_SERVICE whenever the
\* other hint fields are valid (an earlier check reports its own code otherwise).
C5_RawServiceFails ==
    (RawWithService /\ as.as_state # ASR_STATE_INIT) =>
        /\ FailedInInit
        /\ OtherHintsValid => ar.ar_gai_errno = EAI_SERVICE
        /\ ~OtherHintsValid => ar.ar_gai_errno \in InvalidArgument

C5_Witness ==
    /\ Done
    /\ RawWithService
    /\ as.hostname # NULL
    /\ OtherHintsValid
    /\ ar.ar_gai_errno = EAI_SERVICE

\* The request passes every check that precedes the compatibility check.
FieldChecksPass ==
    /\ ~(as.hostname = NULL /\ as.servname = NULL)
    /\ OtherHintsValid
    /\ as.hints.ai_socktype \in {SOCK_ANY, SOCK_DGRAM, SOCK_STREAM, SOCK_RAW}
    /\ ~RawWithService

\* The (socket type, protocol) pairs of the compatibility table, each of them
\* listed for PF_INET and for PF_INET6; protocol 0 of SOCK_RAW stands for any.
TablePairs == { <<SOCK_DGRAM, IPPROTO_UDP>>, <<SOCK_STREAM, IPPROTO_TCP>>,
                <<SOCK_RAW, IPPROTO_ANY>> }

PairAdmitted(p) ==
    /\ as.hints.ai_socktype = p[1] \/ (as.hints.ai_socktype = SOCK_ANY /\ p[1] # SOCK_RAW)
    /\ as.hints.ai_protocol = IPPROTO_ANY \/ as.hints.ai_protocol = p[2] \/ p[2] = IPPROTO_ANY

SomeTriple ==
    /\ as.hints.ai_family \in {PF_UNSPEC, PF_INET, PF_INET6}
    /\ \E p \in TablePairs : PairAdmitted(p)

\* C6 (as claimed): hints that pass the field checks and match no triple fail with
\* an invalid-argument code before anything is built or attempted, and hints that
\* match a triple never fail on the compatibility check.
C6_NoTripleInvalidArgument ==
    (FieldChecksPass /\ ~SomeTriple /\ as.as_state # ASR_STATE_INIT) =>
        (FailedInInit /\ ar.ar_gai_errno \in InvalidArgument)

\* C6 (amended): hints that pass the field checks and match no triple fail before
\* anything is built or attempted, with EAI_BADHINTS in a build that defines it and
\* with EAI_FAIL in a build that does not; hints that match a triple never get
\* that failure from the compatibility check (EAI_FAIL out of ASR_STATE_INIT then
\* only comes from AI_NUMERICHOST).
C6_NoTripleFails ==
    /\ (FieldChecksPass /\ ~SomeTriple /\ as.as_state # ASR_STATE_INIT) =>
          /\ FailedInInit
          /\ build.EAI_BADHINTS => ar.ar_gai_errno = EAI_BADHINTS
          /\ ~build.EAI_BADHINTS => ar.ar_gai_errno = EAI_FAIL
    /\ (FieldChecksPass /\ SomeTriple /\ as.as_state # ASR_STATE_INIT) =>
          /\ ar.ar_gai_errno # EAI_BADHINTS
          /\ (as.as_state = ASR_STATE_HALT /\ as.as_db_idx = 0 /\ ar.ar_gai_errno = EAI_FAIL)
                => (AI_NUMERICHOST \in as.hints.ai_flags /\ as.hostname # NULL)

C6_Witness ==
    /\ Done
    /\ FieldChecksPass
    /\ ~SomeTriple
    /\ as.hints.ai_socktype = SOCK_ANY
    /\ as.hints.ai_protocol = IPPROTO_ICMP
    /\ as.hostname = NameHost
    /\ ~build.EAI_BADHINTS
    /\ ar.ar_gai_errno = EAI_FAIL

\* The entries built so far and the entries handed to the caller.
Entries ==
    { as.aifirst[k] : k \in 1..Len(as.aifirst) }
        \cup { ar.ar_addrinfo[k] : k \in 1..Len(ar.ar_addrinfo) }

\* The wildcard and loopback addresses, as the bytes (PF_INET) or the 16-bit
\* groups (PF_INET6) of the address.
LocalAddr(family, passive) ==
    IF family = PF_INET
    THEN (IF passive THEN <<0, 0, 0, 0>> ELSE <<127, 0, 0, 1>>)
    ELSE (IF passive THEN <<0, 0, 0, 0, 0, 0, 0, 0>> ELSE <<0, 0, 0, 0, 0, 0, 0, 1>>)

\* The request passed the checks of ASR_STATE_INIT and no allocation failed.
PassedChecks ==
    /\ FieldChecksPass
    /\ SomeTriple
    /\ ~bad_service(as)
    /\ ar.ar_gai_errno # EAI_MEMORY

\* C7: with no hostname no backend is ever selected and the run halts out of
\* ASR_STATE_INIT; every entry carries the wildcard address of its family when
\* AI_PASSIVE is set and the loopback address when it is not; a request that
\* passed the checks, no allocation failing, succeeds with entries for every
\* requested family if an entry was built and gets EAI_NODATA if none was.
C7_LocalAddresses ==
    as.hostname = NULL =>
        /\ NoBackendTouched
        /\ \A e \in Entries :
              /\ e.ai_family \in RequestedFamilies
              /\ e.ai_addr.sa_family = e.ai_family
              /\ e.ai_addr.addr = LocalAddr(e.ai_family, AI_PASSIVE \in as.hints.ai_flags)
        /\ (Done /\ PassedChecks /\ as.as_count > 0) =>
              /\ ar.ar_gai_errno = NoError
              /\ ar.ar_count = as.as_count
              /\ Len(ar.ar_addrinfo) = ar.ar_count
              /\ { ar.ar_addrinfo[k].ai_family : k \in 1..Len(ar.ar_addrinfo) } = RequestedFamilies
        /\ (Done /\ PassedChecks /\ as.as_count = 0) =>
              /\ ar.ar_gai_errno = EAI_NODATA
              /\ ar.ar_addrinfo = <<>>

C7_Witness ==
    /\ Done
    /\ as.hostname = NULL
    /\ as.hints.ai_family = PF_UNSPEC
    /\ AI_PASSIVE \in as.hints.ai_flags
    /\ ar.ar_gai_errno = NoError
    /\ \E k \in 1..Len(ar.ar_addrinfo) : ar.ar_addrinfo[k].ai_addr.addr = <<0, 0, 0, 0>>
    /\ \E k \in 1..Len(ar.ar_addrinfo) :
          ar.ar_addrinfo[k].ai_addr.addr = <<0, 0, 0, 0, 0, 0, 0, 0>>

\* The lines of the hosts file that match the request: a name of the line is the
\* hostname, letter case ignored, and its address is of a requested family.
MatchingLines ==
    { k \in 1..Len(hosts) :
        /\ \E i \in 2..Len(hosts[k]) : strcasecmp_eq(as.hostname, hosts[k][i])
        /\ \E fam \in RequestedFamilies : sockaddr_from_str(fam, hosts[k][1]).r = 0 }

\* The request was answered by the hosts file, opened at every attempt.
AnsweredByFile ==
    /\ Done
    /\ as.as_db_idx >= 1
    /\ AS_DB(as, ctx) = ASR_DB_FILE
    /\ f.open

\* C8: a lookup answered by the hosts file with service "80", protocol TCP and
\* exactly one matching line, no allocation failing, succeeds with exactly one
\* entry: the address of that line, port 80 in network order, SOCK_STREAM,
\* IPPROTO_TCP.
C8_FileLookupPort80 ==
    (/\ AnsweredByFile
     /\ as.servname = "80"
     /\ as.hints.ai_protocol = IPPROTO_TCP
     /\ Cardinality(MatchingLines) = 1
     /\ ar.ar_gai_errno # EAI_MEMORY) =>
        /\ ar.ar_gai_errno = NoError
        /\ ar.ar_count = 1
        /\ Len(ar.ar_addrinfo) = 1
        /\ ar.ar_addrinfo[1].ai_socktype = SOCK_STREAM
        /\ ar.ar_addrinfo[1].ai_protocol = IPPROTO_TCP
        /\ ar.ar_addrinfo[1].ai_addr.port = <<0, 80>>
        /\ \E k \in MatchingLines, fam \in RequestedFamilies :
              /\ sockaddr_from_str(fam, hosts[k][1]).r = 0
              /\ ar.ar_addrinfo[1].ai_addr.addr = sockaddr_from_str(fam, hosts[k][1]).sa.addr
              /\ ar.ar_addrinfo[1].ai_family = fam

C8_Witness ==
    /\ AnsweredByFile
    /\ as.servname = "80"
    /\ as.hints.ai_protocol = IPPROTO_TCP
    /\ as.hints.ai_family = PF_UNSPEC
    /\ Len(hosts) = 1
    /\ ar.ar_count = 1
    /\ ar.ar_addrinfo[1].ai_addr.port = <<0, 80>>

\* The response of the last attempt (the run's only one when the family is
\* pinned); NoPacket when there was none.
LastReply == IF fetched = <<>> THEN NoPacket ELSE fetched[Len(fetched)].reply

\* The answer of the sub-query holds two A records for the queried name, and the
\* request, its family pinned to PF_INET, is done without an allocation failure.
TwoARecords ==
    /\ Done
    /\ as.hints.ai_family = PF_INET
    /\ ar.ar_gai_errno # EAI_MEMORY
    /\ ar.ar_datalen # 0 - 1
    /\ Len(LastReply.qd) = 1
    /\ Len(LastReply.an) = 2
    /\ \A k \in 1..2 :
          /\ LastReply.an[k].rr_type = T_A
          /\ LastReply.an[k].rr_class = C_IN
          /\ LastReply.an[k].rr_dname = LastReply.qd[1].q_dname

NamesOf(list) == { list[k].ai_canonname : k \in 1..Len(list) }

\* C9 (as claimed): such a request ends with exactly two entries, both named
\* after the query when AI_CANONNAME is set and both unnamed when it is not.
C9_TwoEntries ==
    (TwoARecords /\ ar.ar_gai_errno = NoError) =>
        /\ ar.ar_count = 2
        /\ Len(ar.ar_addrinfo) = 2
        /\ AI_CANONNAME \in as.hints.ai_flags => NamesOf(ar.ar_addrinfo) = {as.hostname}
        /\ AI_CANONNAME \notin as.hints.ai_flags => NamesOf(ar.ar_addrinfo) = {NULL}

\* The pairs the hints admit and the service has a port for.
UsablePairs ==
    { p \in TablePairs :
        /\ PairAdmitted(p)
        /\ p[2] = IPPROTO_TCP => as.port_tcp # 0 - 1
        /\ p[2] = IPPROTO_UDP => as.port_udp # 0 - 1 }

\* C9 (amended): such a request ends with one entry per record and per (socket
\* type, protocol) pair that the hints admit and the service has a port for, so
\* twice the number of usable pairs: two entries when one pair is usable, four
\* when both DGRAM/UDP and STREAM/TCP are, and no success (EAI_NODATA or
\* EAI_AGAIN) when no pair is usable.  The entries of the first record precede those
\* of the second, and all of them carry the name of the query when AI_CANONNAME
\* or AI_FQDN is set and no name when neither is.
C9_TwoEntriesPerPair ==
    TwoARecords =>
        LET n == Cardinality(UsablePairs)
            named == as.hints.ai_flags \cap {AI_CANONNAME, AI_FQDN} # {}
        IN  /\ n = 0 => ar.ar_gai_errno \in {EAI_NODATA, EAI_AGAIN}
            /\ n > 0 =>
                  /\ ar.ar_gai_errno = NoError
                  /\ ar.ar_count = 2 * n
                  /\ Len(ar.ar_addrinfo) = 2 * n
                  /\ \A k \in 1..(2 * n) :
                        /\ ar.ar_addrinfo[k].ai_family = PF_INET
                        /\ ar.ar_addrinfo[k].ai_addr.addr =
                               LastReply.an[IF k <= n THEN 1 ELSE 2].addr
                        /\ ar.ar_addrinfo[k].ai_canonname =
                               (IF named THEN as.hostname ELSE NULL)
                        /\ \E p \in UsablePairs : ar.ar_addrinfo[k].ai_socktype = p[1]

C9_Witness ==
    /\ TwoARecords
    /\ AI_CANONNAME \in as.hints.ai_flags
    /\ as.hints.ai_socktype = SOCK_STREAM
    /\ ar.ar_count = 2
    /\ ar.ar_addrinfo[1].ai_canonname = NameHost
    /\ ar.ar_addrinfo[2].ai_canonname = NameHost
    /\ ar.ar_addrinfo[1].ai_addr.addr # ar.ar_addrinfo[2].ai_addr.addr

\* The step leaves every field of the result as it was; what the freed
\* response reads as is no field the run sets.
ResultKept == [ar' EXCEPT !.ar_data = NoPacket] = [ar EXCEPT !.ar_data = NoPacket]

\* C10: a call returns ASYNC_COND only from ASR_STATE_SUBQUERY with a sub-query
\* that is itself pending, and then leaves the request (state, cursors, list,
\* count) and the fields of the result as they were; from any other state it
\* returns only ASYNC_DONE, out of ASR_STATE_HALT;
\* and the call that follows ASYNC_COND starts in ASR_STATE_SUBQUERY with that
\* sub-query.
C10_Step ==
    /\ (run.active /\ ~run'.active) =>
          \/ /\ run'.ret = ASYNC_COND
             /\ as.as_state = ASR_STATE_SUBQUERY
             /\ as.subq # NoSubq
             /\ as' = as
             /\ ResultKept
          \/ /\ run'.ret = ASYNC_DONE
             /\ as.as_state = ASR_STATE_HALT
    /\ (run.active /\ as.as_state \notin {ASR_STATE_SUBQUERY, ASR_STATE_HALT}) => run'.active
    /\ (~run.active /\ run.ret = ASYNC_COND) =>
          /\ as.as_state = ASR_STATE_SUBQUERY
          /\ as.subq # NoSubq
          /\ as' = as
          /\ run'.active => as'.as_state = ASR_STATE_SUBQUERY

IsExtension(s, t) == Len(s) >= Len(t) /\ SubSeq(s, 1, Len(t)) = t

\* C11: the list only grows by appending and as_count is its length; at
\* ASR_STATE_HALT a success hands the whole list, in that order, and its length
\* to the result and takes it off the request; a failure gives count 0 and no
\* list, and leaves the entries appended so far on the request.
C11_Step ==
    /\ as.as_state # ASR_STATE_HALT => IsExtension(as'.aifirst, as.aifirst)
    /\ as'.as_state # ASR_STATE_HALT => as'.as_count = Len(as'.aifirst)
    /\ (run.active /\ as.as_state = ASR_STATE_HALT) =>
          /\ as.as_count = Len(as.aifirst)
          /\ ar.ar_gai_errno = NoError =>
                /\ ar'.ar_addrinfo = as.aifirst
                /\ ar'.ar_count = Len(as.aifirst)
                /\ as'.aifirst = <<>>
          /\ ar.ar_gai_errno # NoError =>
                /\ ar'.ar_addrinfo = <<>>
                /\ ar'.ar_count = 0
                /\ as'.aifirst = as.aifirst
          /\ ar'.ar_gai_errno = ar.ar_gai_errno

C11_HaltHandsOver == [][C11_Step]_vars

C11_Witness ==
    /\ Done
    /\ ar.ar_gai_errno = EAI_MEMORY
    /\ Len(as.aifirst) >= 1
    /\ ar.ar_count = 0
    /\ ar.ar_addrinfo = <<>>

\* The outcome res of a step taken from request a is fatal: ASR_STATE_HALT with
\* EAI_MEMORY or EAI_FAIL, the backend cursor where it was, no sub-query, and a
\* result without addresses once ASR_STATE_HALT has run.
Fatal(a, res) ==
    /\ res.as.as_state = ASR_STATE_HALT
    /\ res.ar.ar_gai_errno \in {EAI_MEMORY, EAI_FAIL}
    /\ res.as.as_db_idx = a.as_db_idx
    /\ res.as.subq = NoSubq
    /\ halt(res.as, res.ar).ar.ar_count = 0
    /\ halt(res.as, res.ar).ar.ar_addrinfo = <<>>

\* The heaps in which some allocation of a step fails.
FailingHeaps == { [n |-> 0, failAt |-> k] : k \in 1..MaxAlloc }

\* Whatever of the list builder fails in ASR_STATE_INIT makes the step fatal.
InitAllocFatal ==
    \A heap \in FailingHeaps :
        LET a1 == resolve_ports([as EXCEPT !.as_count = 0], build)
            first == iter_family(a1, ctx, TRUE)
            sa == sockaddr_from_str(first.family,
                      IF as.hostname = NULL THEN local_str(a1, first.family)
                      ELSE as.hostname)
            res == state_init(as, ar, ctx, build, heap)
        IN  (/\ check_hints(as, build) = NoError
             /\ ~bad_service(a1)
             /\ sa.r = 0
             /\ addrinfo_add(first.as, sa.sa, NULL, heap).r = EAI_MEMORY)
                => (Fatal(as, res) /\ res.ar.ar_gai_errno = EAI_MEMORY)

\* A failed allocation of the hosts file scan makes the step fatal.
FileAllocFatal ==
    \A heap \in FailingHeaps :
        addrinfo_from_file(as, query_family(as, ctx), hosts, heap).r = 0 - 1
            => \A mem \in after_alloc(ar.ar_data) :
               LET res == same_db_file(as, ar, ctx, [open |-> TRUE, lines |-> hosts],
                                       heap, mem)
               IN  /\ Fatal(as, res)
                   /\ res.ar.ar_gai_errno = EAI_MEMORY
                   /\ res.as.as_family_idx = as.as_family_idx

\* A sub-query that cannot be created makes the step fatal.
SubmitFatal ==
    \A errno \in {ENOMEM, EINVAL}, mem \in after_alloc(ar.ar_data) :
        LET res == same_db_dns(as, ar, ctx, errno, mem)
        IN  /\ Fatal(as, res)
            /\ res.ar.ar_gai_errno = (IF errno = ENOMEM THEN EAI_MEMORY ELSE EAI_FAIL)
            /\ res.as.as_family_idx = as.as_family_idx

\* A failed allocation of the answer extraction makes the step fatal.
PktAllocFatal ==
    \A heap \in FailingHeaps, data \in Replies(as.subq) :
        addrinfo_from_pkt([as EXCEPT !.subq = NoSubq], data, heap).r = 0 - 1
            => \A freed \in after_free(data) :
               LET res == subquery_done(as, ar, 1, data, heap, freed)
               IN  /\ Fatal(as, res)
                   /\ res.ar.ar_gai_errno = EAI_MEMORY
                   /\ res.as.as_family_idx = as.as_family_idx

\* The step out of a failure, and the final return that follows it.
C12_Step ==
    /\ (as.as_state # ASR_STATE_HALT /\ ar'.ar_gai_errno \in {EAI_MEMORY, EAI_FAIL})
          => as'.as_state = ASR_STATE_HALT
    /\ (as.as_state = ASR_STATE_HALT /\ ar.ar_gai_errno \in {EAI_MEMORY, EAI_FAIL})
          => /\ run'.ret = ASYNC_DONE
             /\ as'.as_db_idx = as.as_db_idx
             /\ as'.as_family_idx = as.as_family_idx
             /\ as'.subq = NoSubq
             /\ f' = f
             /\ ar'.ar_gai_errno = ar.ar_gai_errno
             /\ ar'.ar_count = 0
             /\ ar'.ar_addrinfo = <<>>

\* What the case of the current state does with each failure it can meet.
C12_Handlers ==
    /\ as.as_state = ASR_STATE_INIT => InitAllocFatal
    /\ (as.as_state = ASR_STATE_SAME_DB /\ AS_DB(as, ctx) = ASR_DB_FILE) => FileAllocFatal
    /\ (as.as_state = ASR_STATE_SAME_DB /\ AS_DB(as, ctx) = ASR_DB_DNS) => SubmitFatal
    /\ as.as_state = ASR_STATE_SUBQUERY => PktAllocFatal

\* C12: a failed allocation in ASR_STATE_INIT, in the hosts file scan or in the
\* answer extraction, and a sub-query that cannot be created, take the request
\* straight to ASR_STATE_HALT with EAI_MEMORY or EAI_FAIL; from ASR_STATE_HALT
\* with one of these codes the call returns ASYNC_DONE with the cursors where
\* they were, count 0 and no list.
C12_FailuresAreFatal ==
    /\ [](run.active => C12_Handlers)
    /\ [][run.active => C12_Step]_vars

C12_Witness ==
    /\ Done
    /\ ar.ar_gai_errno = EAI_MEMORY
    /\ as.as_db_idx >= 1
    /\ AS_DB(as, ctx) = ASR_DB_DNS
    /\ ar.ar_datalen # 0 - 1
    /\ Len(LastReply.an) = 2
    /\ ar.ar_data = Indeterminate
    /\ as.hints.ai_family = PF_UNSPEC
    /\ as.as_family_idx = 0

\* The step taken from ASR_STATE_SAME_DB found its backend unavailable: the
\* hosts file could not be opened, or the kind of backend is not recognised.
Unavailable ==
    /\ as.as_state = ASR_STATE_SAME_DB
    /\ \/ AS_DB(as, ctx) \notin {ASR_DB_FILE, ASR_DB_DNS}
       \/ (AS_DB(as, ctx) = ASR_DB_FILE /\ ~f'.open)

\* The unavailable backend sets no error and hands over to ASR_STATE_NEXT_DB,
\* which selects the next backend, if any, at its first family.
C13_MovesOn ==
    /\ Unavailable =>
          /\ as'.as_state = ASR_STATE_NEXT_DB
          /\ ResultKept
          /\ as'.as_db_idx = as.as_db_idx
          /\ as'.aifirst = as.aifirst
    /\ (as.as_state = ASR_STATE_NEXT_DB /\ as.as_db_idx < Len(ctx.ac_db)) =>
          /\ as'.as_state = ASR_STATE_SAME_DB
          /\ as'.as_db_idx = as.as_db_idx + 1
          /\ as'.as_family_idx = 0
          /\ ar' = ar

\* C13 (as claimed): an unavailable backend sets no error and the next backend is
\* tried; after a first backend of a kind that is not recognised, the request
\* ends with EAI_NODATA or EAI_AGAIN only if the backends after it yielded no
\* entry.
C13_Step ==
    /\ C13_MovesOn
    /\ (/\ as.as_state = ASR_STATE_HALT
        /\ Len(ctx.ac_db) >= 1
        /\ ctx.ac_db[1] = ASR_DB_YP
        /\ ar.ar_gai_errno \in {EAI_NODATA, EAI_AGAIN}) => as.aifirst = <<>>

C13_UnavailableIsNotFatal == [][run.active => C13_Step]_vars

\* C14: with AI_NUMERICHOST no run leaves ASR_STATE_INIT for anything but
\* ASR_STATE_HALT, so no backend is selected and no sub-query created; and when
\* no requested family accepts the hostname as a numeric address, a request that
\* passed the checks fails with EAI_FAIL, nothing built.
C14_NumericHostOnly ==
    AI_NUMERICHOST \in as.hints.ai_flags =>
        /\ NoBackendTouched
        /\ (/\ as.as_state # ASR_STATE_INIT
            /\ as.hostname # NULL
            /\ LiteralFamilies = {}
            /\ FieldChecksPass
            /\ SomeTriple
            /\ ~bad_service(as)) =>
              (FailedInInit /\ ar.ar_gai_errno = EAI_FAIL)

C14_Witness ==
    /\ Done
    /\ AI_NUMERICHOST \in as.hints.ai_flags
    /\ as.hostname = NameHost
    /\ as.servname = "80"
    /\ LiteralFamilies = {}
    /\ ar.ar_gai_errno = EAI_FAIL
    /\ NoBackendTouched

\* ------------------------------------------------------------------------
\* asr_freeaddrinfo(ai): the caller releases a result list.
\*
\* A list is a sequence of entries; the pointer to entry k is k and the NULL
\* pointer is 0.  Entry k owns the allocation <<"ai", k>> and, when its
\* ai_canonname is not NULL, the allocation <<"ai_canonname", k>>.
\* rel.list is the list handed in, rel.ai the loop's pointer, rel.freed the
\* number of free() calls made on each allocation.

MaxList == 3

\* ai->ai_next
ai_next_of(list, k) == IF k < Len(list) THEN k + 1 ELSE 0

Allocations(list) ==
    {<<"ai", k>> : k \in 1..Len(list)}
        \cup {<<"ai_canonname", k>> : k \in {j \in 1..Len(list) : list[j].ai_canonname # NULL}}

\* free(p)
free(freed, p) == [freed EXCEPT ![p] = @ + 1]

\* The loop body without "free(ai->ai_canonname)".
asr_freeaddrinfo_body_leaky(r) ==
    LET ai_next == ai_next_of(r.list, r.ai)
    IN  [r EXCEPT !.freed = free(r.freed, <<"ai", r.ai>>), !.ai = ai_next]

\* One pass of "while (ai)": ai_next = ai->ai_next; the name is freed when
\* there is one; free(ai); ai = ai_next.
asr_freeaddrinfo_body(r) ==
    LET ai_next == ai_next_of(r.list, r.ai)
        f1 == IF r.list[r.ai].ai_canonname # NULL
              THEN free(r.freed, <<"ai_canonname", r.ai>>)
              ELSE r.freed
    IN  [r EXCEPT !.freed = free(f1, <<"ai", r.ai>>), !.ai = ai_next]

\* Entries as addrinfo_add() builds them, with and without a canonical name.
ReleasedEntries ==
    {new_addrinfo(sockaddr_from_str(PF_INET, V4Host).sa, SOCK_STREAM, IPPROTO_TCP, 80, NULL),
     new_addrinfo(sockaddr_from_str(PF_INET, V4Host).sa, SOCK_DGRAM, IPPROTO_UDP, 0, NameHost),
     new_addrinfo(sockaddr_from_str(PF_INET6, V6Host).sa, SOCK_STREAM, IPPROTO_TCP, 80, NameHost)}

ReleasedLists == UNION {[1..n -> ReleasedEntries] : n \in 0..MaxList}

\* The caller holds a finished result and calls asr_freeaddrinfo(ar_addrinfo).
InitFree ==
    /\ \E list \in ReleasedLists :
          /\ ar = [ar_gai_errno |-> NoError, ar_count |-> Len(list), ar_addrinfo |-> list,
                   ar_datalen |-> 0, ar_data |-> NoPacket]
          /\ rel = [list |-> list,
                    ai |-> IF list = <<>> THEN 0 ELSE 1,
                    freed |-> [p \in Allocations(list) |-> 0]]
    /\ as = [getaddrinfo_async(NameHost, NULL, NULL,
                                [ac_db |-> DefaultDbs, ac_family |-> DefaultFamilies],
                                [n |-> 0, failAt |-> 0])
                EXCEPT !.as_state = ASR_STATE_HALT]
    /\ ctx = [ac_db |-> DefaultDbs, ac_family |-> DefaultFamilies]
    /\ hosts = <<>>
    /\ build = [EAI_BADHINTS |-> TRUE, HAVE_GETSERVBYNAME_R_4_ARGS |-> TRUE]
    /\ run = [active |-> FALSE, ret |-> ASYNC_DONE, pending |-> 0]
    /\ f = NoFile
    /\ fetched = <<>>

FreeLoop ==
    /\ rel.ai # 0
    /\ rel' = asr_freeaddrinfo_body(rel)
    /\ UNCHANGED <<as, ar, ctx, run, f, hosts, build, fetched>>

NextFree == FreeLoop

SpecFree == InitFree /\ [][NextFree]_vars /\ WF_vars(FreeLoop)

\* C15: asr_freeaddrinfo() terminates, and when it has returned every entry
\* of the list and every canonical-name copy has been freed exactly once;
\* while it runs nothing is freed twice.
Released == rel.ai = 0

C15_ReleasesEachOnce ==
    /\ [](\A p \in DOMAIN rel.freed : rel.freed[p] <= 1)
    /\ [](Released => \A p \in Allocations(rel.list) : rel.freed[p] = 1)
    /\ <>Released

C15_Witness ==
    /\ Released
    /\ Len(rel.list) = MaxList
    /\ \E j, k \in 1..Len(rel.list) :
          /\ rel.list[j].ai_canonname = NULL
          /\ rel.list[k].ai_canonname # NULL
          /\ rel.freed[<<"ai_canonname", k>>] = 1

\* The step reads the hosts file: ASR_STATE_SAME_DB with the file backend
\* selected, and the file opens.
FileStep ==
    /\ run.active
    /\ as.as_state = ASR_STATE_SAME_DB
    /\ AS_DB(as, ctx) = ASR_DB_FILE
    /\ f'.open

\* The entries a step appends.
Appended == SubSeq(as'.aifirst, Len(as.aifirst) + 1, Len(as'.aifirst))

\* Entry e was built from line k of the hosts file, carrying the name c.
FromLine(e, k, c) ==
    /\ \E i \in 2..Len(hosts[k]) : strcasecmp_eq(as.hostname, hosts[k][i])
    /\ sockaddr_from_str(e.ai_family, hosts[k][1]).r = 0
    /\ e.ai_addr.addr = sockaddr_from_str(e.ai_family, hosts[k][1]).sa.addr
    /\ e.ai_canonname = c

\* The statement as written: the name of an entry taken from a line follows
\* the policy of the DNS extractor, the learned name for AI_FQDN alone.
C16_StepAsPkt ==
    FileStep =>
        \A n \in 1..Len(Appended) : \E k \in 1..Len(hosts) :
            FromLine(Appended[n], k,
                     IF AI_CANONNAME \in as.hints.ai_flags THEN hosts[k][2]
                     ELSE IF AI_FQDN \in as.hints.ai_flags THEN as.fqdn
                     ELSE NULL)

C16_FileNameAsPkt == [][C16_StepAsPkt]_vars

C16_Step ==
    FileStep =>
        \A n \in 1..Len(Appended) : \E k \in 1..Len(hosts) :
            FromLine(Appended[n], k,
                     IF as.hints.ai_flags \cap {AI_CANONNAME, AI_FQDN} # {}
                     THEN hosts[k][2] ELSE NULL)

\* C16 (amended): an entry built from a matching line of the hosts file
\* carries the line's first name when AI_CANONNAME or AI_FQDN was requested,
\* AI_FQDN alone included, and no name when neither flag is set.
C16_FileNamePolicy == [][C16_Step]_vars

\* A lookup with AI_FQDN alone answered by a line of the hosts file: the entry
\* carries the line's first name, which is not the name the request has
\* learned (none, the file having been read before any DNS answer).
C16_Witness ==
    /\ AnsweredByFile
    /\ as.hints.ai_flags = {AI_FQDN}
    /\ \E n \in 1..Len(ar.ar_addrinfo) :
          /\ ar.ar_addrinfo[n].ai_canonname = "www6.example.com"
          /\ ar.ar_addrinfo[n].ai_canonname # as.fqdn

\* The attempts made at the backend of index d.
FetchesAt(d) == { j \in 1..Len(fetched) : fetched[j].as_db_idx = d }

\* The backend of index d has been left: the cursor is past it, or its attempt
\* at the current family has been made.
BackendTried(d) ==
    /\ d \in 1..as.as_db_idx
    /\ ctx.ac_db[d] \in {ASR_DB_DNS, ASR_DB_FILE}
    /\ d < as.as_db_idx \/ as.as_state # ASR_STATE_SAME_DB

\* C17: backends and families are visited forward, without retry. No (backend,
\* family) pair is fetched twice; attempts follow the configured order of the
\* backends and, within a backend, of the families, the first attempt at each
\* backend being made at family cursor zero; the family asked is the one at
\* the cursor, or the pinned one, and with a pinned family every backend the
\* run has tried was fetched once, for that family.
C17_ForwardIteration ==
    /\ \A i, j \in 1..Len(fetched) :
          i < j =>
             /\ <<fetched[i].as_db_idx, fetched[i].family>>
                   # <<fetched[j].as_db_idx, fetched[j].family>>
             /\ fetched[i].as_db_idx <= fetched[j].as_db_idx
             /\ fetched[i].as_db_idx = fetched[j].as_db_idx
                   => fetched[i].as_family_idx < fetched[j].as_family_idx
    /\ \A j \in 1..Len(fetched) :
          /\ fetched[j].db = ctx.ac_db[fetched[j].as_db_idx]
          /\ (j = 1 \/ fetched[j - 1].as_db_idx # fetched[j].as_db_idx)
                => fetched[j].as_family_idx = 0
          /\ as.hints.ai_family = PF_UNSPEC
                => fetched[j].family = ctx.ac_family[fetched[j].as_family_idx + 1]
          /\ as.hints.ai_family # PF_UNSPEC
                => fetched[j].family = as.hints.ai_family
    /\ as.hints.ai_family # PF_UNSPEC
          => \A d \in 1..Len(ctx.ac_db) :
                /\ Cardinality(FetchesAt(d)) <= 1
                /\ BackendTried(d) => Cardinality(FetchesAt(d)) = 1

\* Both backends were fetched for both families of the configuration, and
\* nothing was found.
C17_Witness ==
    /\ Done
    /\ as.hints.ai_family = PF_UNSPEC
    /\ Len(fetched) = 4
    /\ fetched[2].as_db_idx = 1 /\ fetched[2].as_family_idx = 1
    /\ fetched[3].as_db_idx = 2 /\ fetched[3].as_family_idx = 0

\* The request owns a sub-query.
OwnsSubquery == as.subq # NoSubq

C18_Step ==
    /\ (~OwnsSubquery /\ OwnsSubquery') =>
          /\ as.as_state = ASR_STATE_SAME_DB
          /\ AS_DB(as, ctx) = ASR_DB_DNS
          /\ as'.as_state = ASR_STATE_SUBQUERY
    /\ OwnsSubquery => as'.subq \in {as.subq, NoSubq}
    /\ (run.active /\ as.as_state = ASR_STATE_SUBQUERY /\ run'.active) => ~OwnsSubquery'

\* C18: the request owns a sub-query exactly while its state is
\* ASR_STATE_SUBQUERY. A sub-query is issued only by the DNS attempt of
\* ASR_STATE_SAME_DB, when none is owned; the one owned is never replaced,
\* and it is given up by the step that sees it complete; in ASR_STATE_HALT
\* and after the final return none is owned.
C18_AtMostOneSubquery ==
    /\ [](OwnsSubquery <=> as.as_state = ASR_STATE_SUBQUERY)
    /\ []((as.as_state = ASR_STATE_HALT \/ Done) => ~OwnsSubquery)
    /\ [][C18_Step]_vars

\* A second sub-query is owned, the first one having completed.
C18_Witness ==
    /\ OwnsSubquery
    /\ as.as_state = ASR_STATE_SUBQUERY
    /\ Len(fetched) >= 2
    /\ fetched[Len(fetched)].db = ASR_DB_DNS
    /\ fetched[Len(fetched) - 1].db = ASR_DB_DNS
    /\ ar.ar_datalen # 0

\* The port the request resolved for a protocol: as.ai.port_tcp, port_udp, or
\* none (0) for any other protocol.
ResolvedPort(proto) ==
    IF proto = IPPROTO_TCP THEN as.port_tcp
    ELSE IF proto = IPPROTO_UDP THEN as.port_udp
    ELSE 0

\* Entry e is compatible with the hints of the request.
Compatible(e) ==
    /\ e.ai_family = e.ai_addr.sa_family
    /\ e.ai_family \in {PF_INET, PF_INET6}
    /\ Len(e.ai_addr.addr) = IF e.ai_family = PF_INET THEN 4 ELSE 8
    /\ as.hints.ai_family # PF_UNSPEC => e.ai_family = as.hints.ai_family
    /\ as.hints.ai_socktype # SOCK_ANY => e.ai_socktype = as.hints.ai_socktype
    /\ as.hints.ai_socktype = SOCK_ANY => e.ai_socktype \in {SOCK_DGRAM, SOCK_STREAM}
    /\ as.hints.ai_protocol # IPPROTO_ANY => e.ai_protocol = as.hints.ai_protocol
    /\ ResolvedPort(e.ai_protocol) # 0 - 1
    /\ e.ai_addr.port = htons(ResolvedPort(e.ai_protocol))

\* C19: every entry of the list being built and of the list handed over is
\* compatible with the hints: its family is that of its address and the
\* pinned one if any, its socket type the hinted one or, with none hinted,
\* not SOCK_RAW, its protocol the hinted one if any, its port the one
\* resolved for its protocol, which is never -1.
C19_EntriesMatchHints ==
    /\ \A n \in 1..Len(as.aifirst) : Compatible(as.aifirst[n])
    /\ \A n \in 1..Len(ar.ar_addrinfo) : Compatible(ar.ar_addrinfo[n])

\* A service that has no port for TCP: the entries handed over are those of
\* UDP, the TCP ones having been skipped.
C19_Witness ==
    /\ Done
    /\ as.port_tcp = 0 - 1
    /\ as.port_udp > 0
    /\ as.hints.ai_socktype = SOCK_ANY
    /\ Len(ar.ar_addrinfo) >= 1

\* ------------------------------------------------------------------------
\* Termination.  The caller runs the request again after each ASYNC_COND, the
\* run executes its next step, and a sub-query that is run again and again
\* completes.  The requests are the lookups of a name without a service and
\* with no socket type or protocol asked for (neither changes which state
\* follows which), over every family, flag, configuration and hosts file.
TerminationRequests ==
    { rq \in LookupRequests :
        /\ rq.servname = NULL
        /\ rq.hints.ai_socktype = SOCK_ANY
        /\ rq.hints.ai_protocol = IPPROTO_ANY }

FairInit ==
    /\ \E rq \in TerminationRequests :
          /\ \E failAt \in 0..(MaxAlloc + 1), given \in BOOLEAN :
                LET asr == [ac_db |-> rq.ac_db, ac_family |-> rq.ac_family]
                    a == getaddrinfo_async(rq.hostname, rq.servname,
                                           IF given THEN rq.hints ELSE NULL, asr,
                                           [n |-> 0, failAt |-> failAt])
                IN  /\ ToString(a) # ToString(NULL)
                    /\ as = marked(a, rq.flags)
                    /\ ctx = asr
          /\ hosts = rq.hosts
          /\ build = [EAI_BADHINTS |-> rq.EAI_BADHINTS,
                      HAVE_GETSERVBYNAME_R_4_ARGS |-> rq.HAVE_GETSERVBYNAME_R_4_ARGS]
    /\ ar = [ar_gai_errno |-> NoError, ar_count |-> 0, ar_addrinfo |-> <<>>,
             ar_datalen |-> 0, ar_data |-> NoPacket]
    /\ run = [active |-> FALSE, ret |-> NULL, pending |-> 0]
    /\ f = NoFile
    /\ rel = NoRelease
    /\ fetched = <<>>

FairSpec ==
    /\ FairInit
    /\ [][Next]_vars
    /\ WF_vars(Next)
    /\ SF_vars(StateSubqueryDone)

\* The place of a state in the course of one attempt.
StateRank(s) ==
    CASE s = ASR_STATE_INIT -> 0
      [] s = ASR_STATE_SAME_DB -> 1
      [] s = ASR_STATE_SUBQUERY -> 2
      [] s = ASR_STATE_NEXT_FAMILY -> 3
      [] s = ASR_STATE_NEXT_DB -> 4
      [] s = ASR_STATE_NOT_FOUND -> 5
      [] s = ASR_STATE_HALT -> 6

\* The cursors advanced: a later backend, or the same one and a later family.
CursorAdvanced ==
    \/ as'.as_db_idx > as.as_db_idx
    \/ as'.as_db_idx = as.as_db_idx /\ as'.as_family_idx > as.as_family_idx

C20_Step ==
    /\ as'.as_db_idx >= as.as_db_idx
    /\ as'.as_db_idx <= Len(ctx.ac_db)
    /\ as'.as_family_idx <= Len(ctx.ac_family) - 1
    /\ as'.as_state # as.as_state =>
          \/ CursorAdvanced
          \/ /\ as'.as_db_idx = as.as_db_idx
             /\ as'.as_family_idx = as.as_family_idx
             /\ StateRank(as'.as_state) > StateRank(as.as_state)

\* The DNS attempts made so far.
DnsFetches == { j \in 1..Len(fetched) : fetched[j].db = ASR_DB_DNS }

\* C20: every resolution terminates. Under FairSpec the run makes its final
\* return; at most (number of backends) x (number of families) DNS
\* sub-queries are issued; the cursors never go back and stay within the
\* lists, and a step that changes the state either advances a cursor or moves
\* to a later state of the same attempt, so that no state is entered again
\* without a cursor having advanced.
C20_Terminates ==
    /\ <>Done
    /\ [](Cardinality(DnsFetches) <= Len(ctx.ac_db) * (Len(ctx.ac_family) - 1))
    /\ [][C20_Step]_vars

\* The final return after a return with a sub-query pending and DNS attempts
\* for both families.
C20_Witness ==
    /\ Done
    /\ run.pending >= 1
    /\ Cardinality(DnsFetches) = 2
    /\ as.as_db_idx = Len(ctx.ac_db)

====
